---- MODULE Spec2Model ----
(***************************************************************************)
(* Crosspost web app: the local helper (settings, credential resolver,    *)
(* gateway relay) and the compose pane's validate-and-submit path.        *)
(*                                                                         *)
(* JavaScript strings are modelled as tokens with explicit tables for the *)
(* conversions the code applies to them (trim, URL normalisation, JSON    *)
(* parse / stringify).  JavaScript objects are functions whose DOMAIN is  *)
(* the set of own keys, so `delete o.k` and `k in o` are domain changes.  *)
(***************************************************************************)
EXTENDS Integers, Sequences, FiniteSets, TLC

\* The helper: the keychain entry, the config file, and for the request being
\* answered: the request, the reply, the upstream request it made (if any),
\* whether writeSecrets ran, and the reply the same request gets when only the
\* values of the stored secrets are different (replyAlt), and the calls of
\* fetch it made, in order (fetches).
VARIABLES secrets, config, request, reply, replyAlt, upstream, wrote, fetches

\* The resolver applied to one input: the arguments and the value returned.
VARIABLES resolveArgs, resolveResult

\* The compose pane: the draft (mode, text, thread, scheduleAt,
\* selectedTargets, clientRequestId, media), the limits prop, the publish
\* state (publishing, statusMessage, statusIsError, lastResponse), the publish
\* requests sent and not yet answered (inflight), and for the last call of
\* submit its argument, and the handler of the pane that ran last (called).
VARIABLES mode, text, thread, scheduleAt, selectedTargets, clientRequestId, media,
          limits, publishing, statusMessage, statusIsError, lastResponse,
          inflight, wantsScheduleArg, called

\* A function of the program applied to one input: the arguments and the
\* value returned.
VARIABLES callArgs, callResult

\* POST /api/settings/secrets handled for several requests at once: for each
\* request its position in the handler, its body, the value readSecrets
\* returned to it and what it computed from it (saves), and the request whose
\* writeSecrets ran last (lastWriter, 0 when none ran).
VARIABLES saves, lastWriter

\* The compose pane's surroundings: the `configured` prop, the ref that says
\* the targets were initialised from it, and the draft in localStorage.
VARIABLES configured, initializedTargetsRef, savedDraft

helperVars == <<secrets, config, request, reply, replyAlt, upstream, wrote, fetches>>

draftVars == <<mode, text, thread, scheduleAt, selectedTargets, clientRequestId, media>>

composeVars == <<mode, text, thread, scheduleAt, selectedTargets, clientRequestId, media,
                 limits, publishing, statusMessage, statusIsError, lastResponse,
                 inflight, wantsScheduleArg, called>>

resolverVars == <<resolveArgs, resolveResult>>

callVars == <<callArgs, callResult>>

saveVars == <<saves, lastWriter>>

mountVars == <<configured, initializedTargetsRef, savedDraft>>

vars == <<secrets, config, request, reply, replyAlt, upstream, wrote, fetches,
          resolveArgs, resolveResult,
          mode, text, thread, scheduleAt, selectedTargets, clientRequestId, media,
          limits, publishing, statusMessage, statusIsError, lastResponse,
          inflight, wantsScheduleArg, called,
          callArgs, callResult,
          saves, lastWriter,
          configured, initializedTargetsRef, savedDraft>>

(***************************************************************************)
(* JavaScript value tokens                                                 *)
(***************************************************************************)
\* key not present in the object (property read gives undefined)
ABSENT == "<absent>"
\* a value whose typeof is not 'string' (a number)
NONSTRING == "<number>"
\* undefined
UNDEF == "<undefined>"
\* null
NULL == "<null>"

\* String.prototype.trim on the string tokens used as inputs
Trim(s) ==
  CASE s = "  " -> ""
    [] s = " key2 " -> "key2"
    [] s = " tok1 " -> "tok1"
    [] s = " https://bsky.social/ " -> "https://bsky.social/"
    [] s = " req-1 " -> "req-1"
    [] s = " alt " -> "alt"
    [] OTHER -> s

\* JavaScript truthiness of a string-or-undefined value
Truthy(v) == v \notin {UNDEF, NULL, ABSENT, ""}

\* new URL(s): whether it parses, its protocol, and its serialisation after
\* pathname trailing slash, search and hash are removed
UrlParse(s) ==
  CASE s = "https://bsky.social/" -> [ok |-> TRUE, protocol |-> "https:", normal |-> "https://bsky.social"]
    [] s = "https://bsky.social" -> [ok |-> TRUE, protocol |-> "https:", normal |-> "https://bsky.social"]
    [] s = "https://m.social" -> [ok |-> TRUE, protocol |-> "https:", normal |-> "https://m.social"]
    [] s = "http://gw.local:9000/?q=1#h" -> [ok |-> TRUE, protocol |-> "http:", normal |-> "http://gw.local:9000"]
    [] s = "ftp://m.social" -> [ok |-> TRUE, protocol |-> "ftp:", normal |-> "ftp://m.social"]
    [] OTHER -> [ok |-> FALSE, protocol |-> "", normal |-> ""]

normalizeBaseUrl(input) ==
  IF input \in {ABSENT, NONSTRING, UNDEF, NULL} \/ Trim(input) = "" THEN NULL
  ELSE LET normalized == UrlParse(Trim(input)) IN
       IF ~normalized.ok THEN NULL
       ELSE IF normalized.protocol # "http:" /\ normalized.protocol # "https:" THEN NULL
       ELSE normalized.normal

trimToUndefined(value) ==
  IF value \in {ABSENT, NONSTRING, UNDEF, NULL} THEN UNDEF
  ELSE LET trimmed == Trim(value) IN
       IF trimmed # "" THEN trimmed ELSE UNDEF

(***************************************************************************)
(* Objects as functions                                                    *)
(***************************************************************************)
EmptyObject == [k \in {} |-> ""]

Has(obj, k) == k \in DOMAIN obj

Put(obj, k, v) == [j \in DOMAIN obj \cup {k} |-> IF j = k THEN v ELSE obj[j]]

Delete(obj, k) == [j \in DOMAIN obj \ {k} |-> obj[j]]

\* obj.k?.f : undefined when the key or the field is missing
Field(obj, k, f) ==
  IF Has(obj, k) /\ f \in DOMAIN obj[k] THEN obj[k][f] ELSE UNDEF

problem(status, title, detail) ==
  [type |-> "about:blank", title |-> title, status |-> status, detail |-> detail]

DEFAULT_GATEWAY_BASE_URL == "http://127.0.0.1:38081"

(***************************************************************************)
(* Secrets summary and the settings routes                                 *)
(***************************************************************************)
summarizeSecrets(s) ==
  [gatewayApiKey |-> Has(s, "gatewayApiKey") /\ Truthy(s["gatewayApiKey"]),
   x |-> Truthy(Field(s, "x", "authToken")),
   bluesky |-> /\ Truthy(Field(s, "bluesky", "identifier"))
               /\ Truthy(Field(s, "bluesky", "pdsUrl"))
               /\ Truthy(Field(s, "bluesky", "appPassword")),
   mastodon |-> /\ Truthy(Field(s, "mastodon", "instanceUrl"))
                /\ Truthy(Field(s, "mastodon", "accessToken"))]

\* a ?? b on string-or-undefined values
Coalesce(a, b) == IF a \in {UNDEF, NULL, ABSENT} THEN b ELSE a

\* as profileOf, but the Bluesky app password is part of the profile
profileOf_WithPassword(s) ==
  [blueskyIdentifier |-> Coalesce(Field(s, "bluesky", "identifier"), ""),
   blueskyPdsUrl |-> Coalesce(Field(s, "bluesky", "pdsUrl"), "https://bsky.social"),
   blueskyAppPassword |-> Coalesce(Field(s, "bluesky", "appPassword"), ""),
   mastodonInstanceUrl |-> Coalesce(Field(s, "mastodon", "instanceUrl"), ""),
   mastodonVisibility |-> Coalesce(Field(s, "mastodon", "visibility"), "public")]

profileOf(s) ==
  [blueskyIdentifier |-> Coalesce(Field(s, "bluesky", "identifier"), ""),
   blueskyPdsUrl |-> Coalesce(Field(s, "bluesky", "pdsUrl"), "https://bsky.social"),
   mastodonInstanceUrl |-> Coalesce(Field(s, "mastodon", "instanceUrl"), ""),
   mastodonVisibility |-> Coalesce(Field(s, "mastodon", "visibility"), "public")]

NoReply == [kind |-> "none"]

NoUpstream == [kind |-> "none"]

JsonReply(status, body) == [kind |-> "json", status |-> status, body |-> body]

ProblemReply(status, title, detail) ==
  [kind |-> "problem", status |-> status, body |-> problem(status, title, detail)]

\* GET /api/settings
settingsGet(s, c) ==
  JsonReply(200, [gatewayBaseUrl |-> c.gatewayBaseUrl,
                  configured |-> summarizeSecrets(s),
                  profile |-> profileOf(s)])

\* POST /api/settings/gateway : the reply and the config after the request
settingsGateway(c, body) ==
  LET nextUrl == normalizeBaseUrl(body.gatewayBaseUrl) IN
  IF nextUrl = NULL
  THEN [reply |-> ProblemReply(400, "Invalid gateway URL",
                    <<"Provide a valid http:// or https:// gateway base URL.">>),
        config |-> c]
  ELSE [reply |-> JsonReply(200, [gatewayBaseUrl |-> nextUrl]),
        config |-> [gatewayBaseUrl |-> nextUrl]]

\* body.k for a request body whose absent keys are marked ABSENT
BodyHas(body, k) == body[k] # ABSENT

secretsAfterGatewayKey(body, next) ==
  IF BodyHas(body, "gatewayApiKey")
  THEN LET gatewayApiKey == trimToUndefined(body.gatewayApiKey) IN
       IF Truthy(gatewayApiKey) THEN Put(next, "gatewayApiKey", gatewayApiKey)
       ELSE Delete(next, "gatewayApiKey")
  ELSE next

secretsAfterX(body, next) ==
  IF BodyHas(body, "xAuthToken")
  THEN LET authToken == trimToUndefined(body.xAuthToken) IN
       IF Truthy(authToken) THEN Put(next, "x", [authToken |-> authToken])
       ELSE Delete(next, "x")
  ELSE next

touchesBluesky(body) ==
  \/ BodyHas(body, "blueskyIdentifier")
  \/ BodyHas(body, "blueskyPdsUrl")
  \/ BodyHas(body, "blueskyAppPassword")

\* as secretsAfterBluesky, but a partial tuple is skipped instead of rejected
secretsAfterBluesky_SkipPartial(body, next) ==
  IF touchesBluesky(body)
  THEN LET identifier == trimToUndefined(body.blueskyIdentifier)
           pdsUrlRaw == trimToUndefined(body.blueskyPdsUrl)
           appPassword == trimToUndefined(body.blueskyAppPassword)
           pdsUrl == IF Truthy(pdsUrlRaw) THEN normalizeBaseUrl(pdsUrlRaw) ELSE UNDEF
       IN IF ~Truthy(identifier) /\ ~Truthy(pdsUrl) /\ ~Truthy(appPassword)
          THEN [ok |-> TRUE, next |-> Delete(next, "bluesky")]
          ELSE IF Truthy(identifier) /\ Truthy(pdsUrl) /\ Truthy(appPassword)
          THEN [ok |-> TRUE,
                next |-> Put(next, "bluesky", [identifier |-> identifier,
                                               pdsUrl |-> pdsUrl,
                                               appPassword |-> appPassword])]
          ELSE [ok |-> TRUE, next |-> next]
  ELSE [ok |-> TRUE, next |-> next]

\* the Bluesky branch: [ok, next]
secretsAfterBluesky(body, next) ==
  IF touchesBluesky(body)
  THEN LET identifier == trimToUndefined(body.blueskyIdentifier)
           pdsUrlRaw == trimToUndefined(body.blueskyPdsUrl)
           appPassword == trimToUndefined(body.blueskyAppPassword)
           pdsUrl == IF Truthy(pdsUrlRaw) THEN normalizeBaseUrl(pdsUrlRaw) ELSE UNDEF
       IN IF ~Truthy(identifier) /\ ~Truthy(pdsUrl) /\ ~Truthy(appPassword)
          THEN [ok |-> TRUE, next |-> Delete(next, "bluesky")]
          ELSE IF Truthy(identifier) /\ Truthy(pdsUrl) /\ Truthy(appPassword)
          THEN [ok |-> TRUE,
                next |-> Put(next, "bluesky", [identifier |-> identifier,
                                               pdsUrl |-> pdsUrl,
                                               appPassword |-> appPassword])]
          ELSE [ok |-> FALSE, next |-> next]
  ELSE [ok |-> TRUE, next |-> next]

touchesMastodon(body) ==
  \/ BodyHas(body, "mastodonInstanceUrl")
  \/ BodyHas(body, "mastodonAccessToken")
  \/ BodyHas(body, "mastodonVisibility")

\* as secretsAfterMastodon, but the tuple is stored when either field is set
secretsAfterMastodon_StorePartial(body, next) ==
  IF touchesMastodon(body)
  THEN LET instanceUrlRaw == trimToUndefined(body.mastodonInstanceUrl)
           accessToken == trimToUndefined(body.mastodonAccessToken)
           visibility == Coalesce(trimToUndefined(body.mastodonVisibility), "public")
           instanceUrl == IF Truthy(instanceUrlRaw) THEN normalizeBaseUrl(instanceUrlRaw) ELSE UNDEF
       IN IF ~Truthy(instanceUrl) /\ ~Truthy(accessToken)
          THEN [ok |-> TRUE, next |-> Delete(next, "mastodon")]
          ELSE [ok |-> TRUE,
                next |-> Put(next, "mastodon", [instanceUrl |-> instanceUrl,
                                                accessToken |-> accessToken,
                                                visibility |-> visibility])]
  ELSE [ok |-> TRUE, next |-> next]

\* as secretsAfterMastodon, but a partial tuple clears the stored one
secretsAfterMastodon_ClearOnPartial(body, next) ==
  IF touchesMastodon(body)
  THEN LET instanceUrlRaw == trimToUndefined(body.mastodonInstanceUrl)
           accessToken == trimToUndefined(body.mastodonAccessToken)
           visibility == Coalesce(trimToUndefined(body.mastodonVisibility), "public")
           instanceUrl == IF Truthy(instanceUrlRaw) THEN normalizeBaseUrl(instanceUrlRaw) ELSE UNDEF
       IN IF Truthy(instanceUrl) /\ Truthy(accessToken)
          THEN [ok |-> TRUE,
                next |-> Put(next, "mastodon", [instanceUrl |-> instanceUrl,
                                                accessToken |-> accessToken,
                                                visibility |-> visibility])]
          ELSE [ok |-> TRUE, next |-> Delete(next, "mastodon")]
  ELSE [ok |-> TRUE, next |-> next]

\* the Mastodon branch: [ok, next]
secretsAfterMastodon(body, next) ==
  IF touchesMastodon(body)
  THEN LET instanceUrlRaw == trimToUndefined(body.mastodonInstanceUrl)
           accessToken == trimToUndefined(body.mastodonAccessToken)
           visibility == Coalesce(trimToUndefined(body.mastodonVisibility), "public")
           instanceUrl == IF Truthy(instanceUrlRaw) THEN normalizeBaseUrl(instanceUrlRaw) ELSE UNDEF
       IN IF ~Truthy(instanceUrl) /\ ~Truthy(accessToken)
          THEN [ok |-> TRUE, next |-> Delete(next, "mastodon")]
          ELSE IF Truthy(instanceUrl) /\ Truthy(accessToken)
          THEN [ok |-> TRUE,
                next |-> Put(next, "mastodon", [instanceUrl |-> instanceUrl,
                                                accessToken |-> accessToken,
                                                visibility |-> visibility])]
          ELSE [ok |-> FALSE, next |-> next]
  ELSE [ok |-> TRUE, next |-> next]

\* POST /api/settings/secrets : the reply, the store after the request and
\* whether writeSecrets was called
settingsSecrets(current, body) ==
  LET afterX == secretsAfterX(body, secretsAfterGatewayKey(body, current))
      bsky == secretsAfterBluesky(body, afterX)
      masto == secretsAfterMastodon(body, bsky.next)
  IN IF ~bsky.ok
     THEN [reply |-> ProblemReply(400, "Bluesky credentials incomplete",
                 <<"Set identifier, PDS URL, and app password together, or clear all three.">>),
           secrets |-> current, wrote |-> FALSE]
     ELSE IF ~masto.ok
     THEN [reply |-> ProblemReply(400, "Mastodon credentials incomplete",
                 <<"Set instance URL and access token together, or clear both fields.">>),
           secrets |-> current, wrote |-> FALSE]
     ELSE [reply |-> JsonReply(200, [configured |-> summarizeSecrets(masto.next),
                                     profile |-> profileOf(masto.next)]),
           secrets |-> masto.next, wrote |-> TRUE]

(***************************************************************************)
(* Credential resolver                                                     *)
(***************************************************************************)
Platforms == <<"x", "bluesky", "mastodon">>

PlatformSet == {"x", "bluesky", "mastodon"}

\* A selectedTargets value as the client can send it:
\*   kind "nullish"   : undefined or null (or the key is absent)
\*   kind "object"    : obj maps own keys to the truthiness of their values
\*   kind "string"    : a string of `len` characters
\*   kind "primitive" : a number or a boolean
Nullish == [kind |-> "nullish", obj |-> EmptyObject, len |-> 0]

SelObject(o) == [kind |-> "object", obj |-> o, len |-> 0]

SelString(n) == [kind |-> "string", obj |-> EmptyObject, len |-> n]

SelPrimitive == [kind |-> "primitive", obj |-> EmptyObject, len |-> 0]

\* selected.p as a truth value
Selects(selected, p) ==
  selected.kind = "object" /\ p \in DOMAIN selected.obj /\ selected.obj[p]

\* Object.values(selected).filter(Boolean).length
TruthyValueCount(selected) ==
  CASE selected.kind = "object" -> Cardinality({k \in DOMAIN selected.obj : selected.obj[k]})
    [] selected.kind = "string" -> selected.len
    [] OTHER -> 0

\* as hasCredentials, but Bluesky counts as credentialed without an app password
hasCredentials_NoPassword(s) ==
  [x |-> Truthy(Field(s, "x", "authToken")),
   bluesky |-> /\ Truthy(Field(s, "bluesky", "identifier"))
               /\ Truthy(Field(s, "bluesky", "pdsUrl")),
   mastodon |-> /\ Truthy(Field(s, "mastodon", "instanceUrl"))
                /\ Truthy(Field(s, "mastodon", "accessToken"))]

hasCredentials(s) ==
  [x |-> Truthy(Field(s, "x", "authToken")),
   bluesky |-> /\ Truthy(Field(s, "bluesky", "identifier"))
               /\ Truthy(Field(s, "bluesky", "pdsUrl"))
               /\ Truthy(Field(s, "bluesky", "appPassword")),
   mastodon |-> /\ Truthy(Field(s, "mastodon", "instanceUrl"))
                /\ Truthy(Field(s, "mastodon", "accessToken"))]

targetBlock(s, p) ==
  CASE p = "x" -> [authToken |-> Field(s, "x", "authToken"), client |-> "web"]
    [] p = "bluesky" -> [identifier |-> Field(s, "bluesky", "identifier"),
                         pdsUrl |-> Field(s, "bluesky", "pdsUrl"),
                         appPassword |-> Field(s, "bluesky", "appPassword")]
    [] OTHER -> [instanceUrl |-> Field(s, "mastodon", "instanceUrl"),
                 accessToken |-> Field(s, "mastodon", "accessToken"),
                 visibility |-> Coalesce(Field(s, "mastodon", "visibility"), "public")]

RECURSIVE missingFrom(_, _, _)
\* the pushes to `missing`, in the order x, bluesky, mastodon
missingFrom(selected, has, i) ==
  IF i > Len(Platforms) THEN <<>>
  ELSE LET p == Platforms[i] IN
       (IF Selects(selected, p) /\ ~has[p] THEN <<p>> ELSE <<>>)
         \o missingFrom(selected, has, i + 1)

\* as resolveTargetsFromSelection, but no selection selects every platform
resolveTargetsFromSelection_DefaultAll(s, requestedTargets) ==
  LET has == hasCredentials(s)
      selected == IF requestedTargets.kind = "nullish"
                  THEN SelObject([x |-> TRUE, bluesky |-> TRUE, mastodon |-> TRUE])
                  ELSE requestedTargets
      emitted == {p \in PlatformSet : Selects(selected, p) /\ has[p]}
  IN [targets |-> [p \in emitted |-> targetBlock(s, p)],
      missing |-> missingFrom(selected, has, 1),
      selectedCount |-> TruthyValueCount(selected)]

resolveTargetsFromSelection(s, requestedTargets) ==
  LET has == hasCredentials(s)
      selected == IF requestedTargets.kind = "nullish"
                  THEN SelObject([x |-> has.x, bluesky |-> has.bluesky, mastodon |-> has.mastodon])
                  ELSE requestedTargets
      emitted == {p \in PlatformSet : Selects(selected, p) /\ has[p]}
  IN [targets |-> [p \in emitted |-> targetBlock(s, p)],
      missing |-> missingFrom(selected, has, 1),
      selectedCount |-> TruthyValueCount(selected)]

(***************************************************************************)
(* Payload sanitising                                                      *)
(***************************************************************************)
\* String(v) for the non-string token
StringOf(v) == IF v = NONSTRING THEN "5" ELSE v

\* thread: [isArray, items], items a sequence of segment.text values
\* (a string token, UNDEF / NULL for a missing text, NONSTRING for a number)
sanitizeThread(value) ==
  IF ~value.isArray THEN <<>>
  ELSE [i \in 1..Len(value.items) |->
          [text |-> IF value.items[i] \in {UNDEF, NULL, ABSENT} THEN ""
                    ELSE StringOf(value.items[i])]]

\* a threadIndex value: [t, n] with t in
\*   "number" (the integer n), "fraction" (n + 1/2), "string" (the numeric
\*   string of n), "null", "undefined"
\* Number(v): [isInt, n]
ToNumber(v) ==
  CASE v.t = "number" -> [isInt |-> TRUE, n |-> v.n]
    [] v.t = "string" -> [isInt |-> TRUE, n |-> v.n]
    [] v.t = "null" -> [isInt |-> TRUE, n |-> 0]
    [] OTHER -> [isInt |-> FALSE, n |-> 0]

sanitizeMediaItem(item) ==
  LET threadIndex == ToNumber(item.threadIndex) IN
  IF ~threadIndex.isInt \/ threadIndex.n < 0 THEN <<>>
  ELSE IF item.altText \notin {ABSENT, NONSTRING, UNDEF, NULL} /\ Trim(item.altText) # ""
  THEN << [threadIndex |-> threadIndex.n, altText |-> Trim(item.altText)] >>
  ELSE << [threadIndex |-> threadIndex.n] >>

RECURSIVE sanitizeMediaItems(_)
sanitizeMediaItems(items) ==
  IF items = <<>> THEN <<>>
  ELSE sanitizeMediaItem(Head(items)) \o sanitizeMediaItems(Tail(items))

\* media: [isArray, items]; the empty sequence stands for `undefined`
sanitizeMedia(value) ==
  IF ~value.isArray THEN <<>> ELSE sanitizeMediaItems(value.items)

IsString(v) == v \notin {ABSENT, NONSTRING, UNDEF, NULL}

\* as buildGatewayPayload, but a `targets` object of the client is spread over
\* the resolved one
buildGatewayPayload_ClientTargets(clientPayload, targets) ==
  LET merged == [p \in DOMAIN targets \cup DOMAIN clientPayload.targets |->
                   IF p \in DOMAIN clientPayload.targets
                   THEN clientPayload.targets[p] ELSE targets[p]]
      p0 == [k \in {"targets"} |-> merged]
      p1 == IF IsString(clientPayload.text) /\ clientPayload.text # ""
            THEN Put(p0, "text", clientPayload.text) ELSE p0
      sanitizedThread == sanitizeThread(clientPayload.thread)
      p2 == IF sanitizedThread # <<>> THEN Put(p1, "thread", sanitizedThread) ELSE p1
      sanitizedMedia == sanitizeMedia(clientPayload.media)
  IN IF sanitizedMedia # <<>> THEN Put(p2, "media", sanitizedMedia) ELSE p2

buildGatewayPayload(clientPayload, targets) ==
  LET p0 == [k \in {"targets"} |-> targets]
      p1 == IF IsString(clientPayload.text) /\ clientPayload.text # ""
            THEN Put(p0, "text", clientPayload.text) ELSE p0
      sanitizedThread == sanitizeThread(clientPayload.thread)
      p2 == IF sanitizedThread # <<>> THEN Put(p1, "thread", sanitizedThread) ELSE p1
      p3 == IF IsString(clientPayload.scheduleAt) /\ Trim(clientPayload.scheduleAt) # ""
            THEN Put(p2, "scheduleAt", clientPayload.scheduleAt) ELSE p2
      p4 == IF IsString(clientPayload.clientRequestId) /\ Trim(clientPayload.clientRequestId) # ""
            THEN Put(p3, "clientRequestId", Trim(clientPayload.clientRequestId)) ELSE p3
      sanitizedMedia == sanitizeMedia(clientPayload.media)
  IN IF sanitizedMedia # <<>> THEN Put(p4, "media", sanitizedMedia) ELSE p4

(***************************************************************************)
(* Gateway relay                                                           *)
(***************************************************************************)
\* JSON.parse on the body texts the upstream can answer with
JsonParse(raw) ==
  CASE raw = "{\"a\":1}" -> [ok |-> TRUE, value |-> "object a=1"]
    [] raw = "{ \"a\" : 1 }" -> [ok |-> TRUE, value |-> "object a=1"]
    [] OTHER -> [ok |-> FALSE, value |-> ""]

\* the serialisation of a parsed value when the reply is sent
JsonStringify(value) ==
  CASE value = "object a=1" -> "{\"a\":1}"
    [] OTHER -> value

\* contentType?.includes('application/json') || contentType?.includes('problem+json')
IsJsonContentType(contentType) ==
  contentType \in {"application/json", "application/json; charset=utf-8",
                   "application/problem+json"}

\* What the network does with one upstream request:
\*   "throws"     : fetch rejects
\*   "unreadable" : the response arrives but reading its body rejects
\*   "response"   : status, content-type (ABSENT when there is no header), text
NetThrows == [kind |-> "throws", status |-> 0, contentType |-> ABSENT, text |-> ""]

NetResponse(kind, status, contentType, raw) ==
  [kind |-> kind, status |-> status, contentType |-> contentType, text |-> raw]

HelperError(status, message) == [helper |-> TRUE, status |-> status, message |-> message]

OtherError(message) == [helper |-> FALSE, status |-> 0, message |-> message]

NoError == [helper |-> FALSE, status |-> 0, message |-> ""]

\* gatewayFetch: [threw, error, request, response]
gatewayFetch(c, s, route, query, method, body, net) ==
  IF ~(Has(s, "gatewayApiKey") /\ Truthy(s["gatewayApiKey"]))
  THEN [threw |-> TRUE,
        error |-> HelperError(400, "Missing gateway API key in secure local storage."),
        request |-> NoUpstream, response |-> net]
  ELSE LET req == [kind |-> "request", base |-> c.gatewayBaseUrl, route |-> route,
                   query |-> query, method |-> method,
                   authorization |-> <<"Bearer", s["gatewayApiKey"]>>,
                   body |-> body]
       IN IF net.kind = "throws"
          THEN [threw |-> TRUE, error |-> OtherError("fetch failed"),
                request |-> req, response |-> net]
          ELSE [threw |-> FALSE, error |-> NoError, request |-> req, response |-> net]

\* as relayUpstream, but every body that parses is re-serialised, whatever the
\* content type
relayUpstream_ParseAll(upstreamResponse) ==
  IF upstreamResponse.kind = "unreadable"
  THEN [threw |-> TRUE, error |-> OtherError("terminated"), reply |-> NoReply]
  ELSE LET contentType == upstreamResponse.contentType
           payloadText == upstreamResponse.text
           parsed == JsonParse(payloadText)
       IN [threw |-> FALSE, error |-> NoError,
           reply |-> [kind |-> "relay",
                      status |-> upstreamResponse.status,
                      contentType |-> contentType,
                      body |-> IF parsed.ok
                               THEN JsonStringify(parsed.value)
                               ELSE payloadText]]

\* relayUpstream: [threw, error, reply]
relayUpstream(upstreamResponse) ==
  IF upstreamResponse.kind = "unreadable"
  THEN [threw |-> TRUE, error |-> OtherError("terminated"), reply |-> NoReply]
  ELSE LET contentType == upstreamResponse.contentType
           payloadText == upstreamResponse.text
           parsed == JsonParse(payloadText)
       IN [threw |-> FALSE, error |-> NoError,
           reply |-> [kind |-> "relay",
                      status |-> upstreamResponse.status,
                      contentType |-> contentType,
                      body |-> IF IsJsonContentType(contentType) /\ parsed.ok
                               THEN JsonStringify(parsed.value)
                               ELSE payloadText]]

\* catch (error) { status = error instanceof HelperError ? error.status : 500 ... }
catchReply(title, error) ==
  LET status == IF error.helper THEN error.status ELSE 500 IN
  ProblemReply(status, title, <<error.message>>)

\* a rejection that leaves the route handler: the framework answers, not the handler
Unhandled(error) == [kind |-> "unhandled", error |-> error.message]

\* as relayRoute, but a fetch that failed is tried a second time
relayRoute_RetryOnce(title, fetched) ==
  LET made == IF fetched.request.kind = "request" THEN <<fetched.request>> ELSE <<>> IN
  IF fetched.threw
  THEN [reply |-> catchReply(title, fetched.error), upstream |-> fetched.request,
        fetches |-> IF fetched.error.helper THEN made ELSE made \o made]
  ELSE LET relayed == relayUpstream(fetched.response) IN
       [reply |-> IF relayed.threw THEN Unhandled(relayed.error) ELSE relayed.reply,
        upstream |-> fetched.request, fetches |-> made]

\* try { upstream = await gatewayFetch(...); return relayUpstream(reply, upstream) }
\* catch (error) { ... } : the fetch is awaited inside the try, the promise of
\* relayUpstream is returned without being awaited.  `fetches` lists the calls
\* of fetch made.
relayRoute(title, fetched) ==
  LET made == IF fetched.request.kind = "request" THEN <<fetched.request>> ELSE <<>> IN
  IF fetched.threw
  THEN [reply |-> catchReply(title, fetched.error), upstream |-> fetched.request,
        fetches |-> made]
  ELSE LET relayed == relayUpstream(fetched.response) IN
       [reply |-> IF relayed.threw THEN Unhandled(relayed.error) ELSE relayed.reply,
        upstream |-> fetched.request, fetches |-> made]

NoBody == [kind |-> "none"]

\* GET /api/limits
limitsRoute(s, c, net) ==
  LET q0 == EmptyObject
      q1 == IF Truthy(Field(s, "mastodon", "instanceUrl"))
            THEN Put(q0, "mastodonInstanceUrl", s["mastodon"]["instanceUrl"]) ELSE q0
      q2 == IF Truthy(Field(s, "mastodon", "accessToken"))
            THEN Put(q1, "mastodonAccessToken", s["mastodon"]["accessToken"]) ELSE q1
  IN relayRoute("Failed to fetch limits",
                gatewayFetch(c, s, <<"/v1/limits">>, q2, "GET", NoBody, net))

\* GET /api/jobs
jobsRoute(s, c, net) ==
  relayRoute("Failed to load jobs",
             gatewayFetch(c, s, <<"/v1/jobs">>, EmptyObject, "GET", NoBody, net))

\* GET /api/jobs/:jobId
jobRoute(s, c, jobId, net) ==
  relayRoute("Failed to load job details",
             gatewayFetch(c, s, <<"/v1/jobs/", jobId>>, EmptyObject, "GET", NoBody, net))

\* DELETE /api/jobs/:jobId
jobDeleteRoute(s, c, jobId, net) ==
  relayRoute("Failed to cancel job",
             gatewayFetch(c, s, <<"/v1/jobs/", jobId>>, EmptyObject, "DELETE", NoBody, net))

NotArray == [isArray |-> FALSE, items |-> <<>>]

\* lastResponse before any publish
NoResponse == [scheduled |-> FALSE, overall |-> "<none>", jobId |-> UNDEF]

\* the fields read from a client payload that is not an object ({} or a primitive)
EmptyClientPayload ==
  [text |-> ABSENT, thread |-> NotArray, scheduleAt |-> ABSENT,
   clientRequestId |-> ABSENT, media |-> NotArray, targets |-> EmptyObject,
   selectedTargets |-> Nullish]

\* as postsResolved, without the check of the missing list
postsResolved_NoMissingCheck(s, c, clientPayload, contentType, files, net) ==
  LET resolvedTargets == resolveTargetsFromSelection(s, clientPayload.selectedTargets) IN
  IF resolvedTargets.selectedCount = 0
  THEN [reply |-> ProblemReply(400, "No targets selected",
                    <<"Select at least one platform target before publishing.">>),
        upstream |-> NoUpstream, fetches |-> <<>>]
  ELSE LET gatewayPayload == buildGatewayPayload(clientPayload, resolvedTargets.targets) IN
       relayRoute("Publish failed",
                  gatewayFetch(c, s, <<"/v1/posts">>, EmptyObject, "POST",
                               [kind |-> contentType, payload |-> gatewayPayload,
                                files |-> files],
                               net))

\* the part of POST /api/posts after clientPayload is known (both paths)
postsResolved(s, c, clientPayload, contentType, files, net) ==
  LET resolvedTargets == resolveTargetsFromSelection(s, clientPayload.selectedTargets) IN
  IF resolvedTargets.selectedCount = 0
  THEN [reply |-> ProblemReply(400, "No targets selected",
                    <<"Select at least one platform target before publishing.">>),
        upstream |-> NoUpstream, fetches |-> <<>>]
  ELSE IF Len(resolvedTargets.missing) > 0
  THEN [reply |-> ProblemReply(400, "Missing credentials",
                    <<"Credentials missing for:">> \o resolvedTargets.missing),
        upstream |-> NoUpstream, fetches |-> <<>>]
  ELSE LET gatewayPayload == buildGatewayPayload(clientPayload, resolvedTargets.targets) IN
       relayRoute("Publish failed",
                  gatewayFetch(c, s, <<"/v1/posts">>, EmptyObject, "POST",
                               [kind |-> contentType, payload |-> gatewayPayload,
                                files |-> files],
                               net))

\* POST /api/posts.  req.path is "multipart" or "json"; req.shape says what the
\* payload field (multipart) or request.body (json) is: "missing", "invalid",
\* "null", "primitive" or "object" (then req.payload is the object)
postsRoute(s, c, req, net) ==
  IF req.path = "multipart"
  THEN CASE req.shape = "missing" ->
              [reply |-> ProblemReply(400, "Missing payload", <<"payload field is required.">>),
               upstream |-> NoUpstream, fetches |-> <<>>]
         [] req.shape = "invalid" ->
              [reply |-> ProblemReply(400, "Invalid payload JSON", <<"payload must be valid JSON.">>),
               upstream |-> NoUpstream, fetches |-> <<>>]
         [] req.shape = "null" ->
              [reply |-> catchReply("Publish failed",
                           OtherError("Cannot read properties of null (reading 'selectedTargets')")),
               upstream |-> NoUpstream, fetches |-> <<>>]
         [] req.shape = "primitive" ->
              postsResolved(s, c, EmptyClientPayload, "multipart/form-data", req.files, net)
         [] OTHER ->
              postsResolved(s, c, req.payload, "multipart/form-data", req.files, net)
  ELSE postsResolved(s, c,
                     IF req.shape = "object" THEN req.payload ELSE EmptyClientPayload,
                     "application/json", 0, net)

(***************************************************************************)
(* Compose pane: validation, payload, submit                               *)
(***************************************************************************)
\* A text is what matters of a string here: after trimming it has `bmp`
\* characters of one UTF-16 unit and `astral` characters of two; `pad` says
\* whether white space surrounds it.
Text(bmp, astral, pad) == [bmp |-> bmp, astral |-> astral, pad |-> pad]

EmptyText == Text(0, 0, FALSE)

\* String.prototype.trim
trimText(t) == [t EXCEPT !.pad = FALSE]

\* String.prototype.length, in UTF-16 units
unitLength(t) == t.bmp + 2 * t.astral

\* as countCharacters, but input.length
countCharacters_Units(t) == t.bmp + 2 * t.astral

\* [...input].length
countCharacters(t) == t.bmp + t.astral

X_DEFAULT_LIMIT == 280

BLUESKY_DEFAULT_LIMIT == 300

BLUESKY_MAX_IMAGES == 4

DEFAULT_TARGETS == [x |-> TRUE, bluesky |-> TRUE, mastodon |-> TRUE]

\* limits prop: null, or the limits with an optional mastodon entry
NoLimits ==
  [loaded |-> FALSE, x |-> 0, bluesky |-> 0, hasMastodon |-> FALSE,
   mastodonCharacters |-> 0, mastodonMedia |-> 0]

\* a violation message: its text and the numbers put into it
Msg(m, segment, length, limit) ==
  [text |-> m, segment |-> segment, length |-> length, limit |-> limit]

Plain(m) == Msg(m, 0, 0, 0)

NoMessage == Plain("<null>")

\* new Date(s).getTime() is NaN
IsInvalidDate(s) == s \notin {"2030-01-01T10:00"}

\* new Date(s).toISOString()
ToISOString(s) ==
  CASE s = "2030-01-01T10:00" -> "2030-01-01T10:00:00.000Z"
    [] OTHER -> "<RangeError>"

\* the texts validated: [text] or thread.map(segment => segment.text)
textsOf(D) == IF D.mode = "single" THEN <<D.text>> ELSE D.thread

RECURSIVE limitErrors(_, _, _, _)
\* trimmedSegments.forEach: the limit messages of segments i..Len
limitErrors(D, L, trimmedSegments, i) ==
  IF i > Len(trimmedSegments) THEN <<>>
  ELSE LET label == IF D.mode = "single" THEN 0 ELSE i
           length == countCharacters(trimmedSegments[i])
           xLimit == IF L.loaded THEN L.x ELSE X_DEFAULT_LIMIT
           blueskyLimit == IF L.loaded THEN L.bluesky ELSE BLUESKY_DEFAULT_LIMIT
           hasMastodonLimit == L.loaded /\ L.hasMastodon /\ L.mastodonCharacters # 0
       IN (IF D.selectedTargets.x /\ length > xLimit
           THEN <<Msg("exceeds X limit", label, length, xLimit)>> ELSE <<>>)
          \o (IF D.selectedTargets.bluesky /\ length > blueskyLimit
              THEN <<Msg("exceeds Bluesky limit", label, length, blueskyLimit)>> ELSE <<>>)
          \o (IF D.selectedTargets.mastodon /\ hasMastodonLimit
                 /\ length > L.mastodonCharacters
              THEN <<Msg("exceeds Mastodon limit", label, length, L.mastodonCharacters)>>
              ELSE <<>>)
          \o limitErrors(D, L, trimmedSegments, i + 1)

RECURSIVE segmentKeys(_, _)
\* the keys of mediaBySegment in insertion order: each threadIndex at its
\* first occurrence
segmentKeys(m, seen) ==
  IF m = <<>> THEN <<>>
  ELSE IF Head(m).threadIndex \in seen THEN segmentKeys(Tail(m), seen)
  ELSE <<Head(m).threadIndex>> \o segmentKeys(Tail(m), seen \cup {Head(m).threadIndex})

\* the number of entries of segment k whose file type starts with `prefix`
countOfType(m, k, prefix) ==
  Cardinality({i \in 1..Len(m) : m[i].threadIndex = k /\ m[i].type = prefix})

countInSegment(m, k) == Cardinality({i \in 1..Len(m) : m[i].threadIndex = k})

\* as blueskyMediaErrors, but four images are already too many
RECURSIVE blueskyMediaErrors_FourIsTooMany(_, _)
blueskyMediaErrors_FourIsTooMany(m, keys) ==
  IF keys = <<>> THEN <<>>
  ELSE LET threadIndex == Head(keys)
           videos == countOfType(m, threadIndex, "video")
           images == countOfType(m, threadIndex, "image")
       IN (IF videos > 1
           THEN <<Msg("Bluesky segment allows only one video.", threadIndex + 1, 0, 0)>>
           ELSE <<>>)
          \o (IF videos = 1 /\ images > 0
              THEN <<Msg("Bluesky segment cannot mix video and images together.",
                         threadIndex + 1, 0, 0)>>
              ELSE <<>>)
          \o (IF videos = 0 /\ images >= BLUESKY_MAX_IMAGES
              THEN <<Msg("Bluesky segment supports up to 4 images.", threadIndex + 1, 0, 0)>>
              ELSE <<>>)
          \o blueskyMediaErrors_FourIsTooMany(m, Tail(keys))

RECURSIVE blueskyMediaErrors(_, _)
blueskyMediaErrors(m, keys) ==
  IF keys = <<>> THEN <<>>
  ELSE LET threadIndex == Head(keys)
           videos == countOfType(m, threadIndex, "video")
           images == countOfType(m, threadIndex, "image")
       IN (IF videos > 1
           THEN <<Msg("Bluesky segment allows only one video.", threadIndex + 1, 0, 0)>>
           ELSE <<>>)
          \o (IF videos = 1 /\ images > 0
              THEN <<Msg("Bluesky segment cannot mix video and images together.",
                         threadIndex + 1, 0, 0)>>
              ELSE <<>>)
          \o (IF videos = 0 /\ images > BLUESKY_MAX_IMAGES
              THEN <<Msg("Bluesky segment supports up to 4 images.", threadIndex + 1, 0, 0)>>
              ELSE <<>>)
          \o blueskyMediaErrors(m, Tail(keys))

\* as mastodonMediaErrors, but counting the media of all segments together
RECURSIVE mastodonMediaErrors_AllMedia(_, _, _)
mastodonMediaErrors_AllMedia(m, max, keys) ==
  IF keys = <<>> THEN <<>>
  ELSE LET threadIndex == Head(keys)
           total == Len(m)
       IN (IF total > max
           THEN <<Msg("Mastodon segment exceeds max media", threadIndex + 1, total, max)>>
           ELSE <<>>)
          \o mastodonMediaErrors_AllMedia(m, max, Tail(keys))

RECURSIVE mastodonMediaErrors(_, _, _)
mastodonMediaErrors(m, max, keys) ==
  IF keys = <<>> THEN <<>>
  ELSE LET threadIndex == Head(keys)
           total == countInSegment(m, threadIndex)
       IN (IF total > max
           THEN <<Msg("Mastodon segment exceeds max media", threadIndex + 1, total, max)>>
           ELSE <<>>)
          \o mastodonMediaErrors(m, max, Tail(keys))

\* as targetErrors, but any key of selectedTargets counts as a selection
targetErrors_AnyKey(D) ==
  IF DOMAIN D.selectedTargets = {}
  THEN <<Plain("Select at least one target platform.")>> ELSE <<>>

\* no target selected
targetErrors(D) ==
  LET hasSelectedTarget == \E p \in DOMAIN D.selectedTargets : D.selectedTargets[p]
  IN IF ~hasSelectedTarget
     THEN <<Plain("Select at least one target platform.")>> ELSE <<>>

\* as textErrors, but missing text is flagged when some segment is empty
textErrors_SomeEmpty(D) ==
  LET texts == textsOf(D)
      trimmedSegments == [i \in 1..Len(texts) |-> trimText(texts[i])]
      isEmpty(i) == unitLength(trimmedSegments[i]) = 0
  IN (IF \E i \in 1..Len(texts) : isEmpty(i)
      THEN <<Plain("Add post text before publishing.")>> ELSE <<>>)
     \o (IF D.mode = "thread" /\ \E i \in 1..Len(texts) : isEmpty(i)
         THEN <<Plain("Each thread segment should contain text.")>> ELSE <<>>)

\* missing text
textErrors(D) ==
  LET texts == textsOf(D)
      trimmedSegments == [i \in 1..Len(texts) |-> trimText(texts[i])]
      isEmpty(i) == unitLength(trimmedSegments[i]) = 0
  IN (IF \A i \in 1..Len(texts) : isEmpty(i)
      THEN <<Plain("Add post text before publishing.")>> ELSE <<>>)
     \o (IF D.mode = "thread" /\ \E i \in 1..Len(texts) : isEmpty(i)
         THEN <<Plain("Each thread segment should contain text.")>> ELSE <<>>)

\* schedule date
scheduleErrors(D, wantsSchedule) ==
  IF wantsSchedule
  THEN IF Trim(D.scheduleAt) = ""
       THEN <<Plain("Set a schedule date/time before scheduling.")>>
       ELSE IF IsInvalidDate(D.scheduleAt)
       THEN <<Plain("Schedule date/time is invalid.")>>
       ELSE <<>>
  ELSE <<>>

getValidationErrors(D, L, wantsSchedule) ==
  LET texts == textsOf(D)
      trimmedSegments == [i \in 1..Len(texts) |-> trimText(texts[i])]
  IN targetErrors(D)
     \o textErrors(D)
     \o limitErrors(D, L, trimmedSegments, 1)
     \o (IF D.selectedTargets.bluesky
         THEN blueskyMediaErrors(D.media, segmentKeys(D.media, {})) ELSE <<>>)
     \o (IF D.selectedTargets.mastodon /\ L.loaded /\ L.hasMastodon /\ L.mastodonMedia # 0
         THEN mastodonMediaErrors(D.media, L.mastodonMedia, segmentKeys(D.media, {}))
         ELSE <<>>)
     \o scheduleErrors(D, wantsSchedule)

\* buildPayload: [threw, payload]; it throws when toISOString gets an invalid date
buildPayload(D, wantsSchedule) ==
  LET p0 == [k \in {"selectedTargets"} |-> D.selectedTargets]
      p1 == IF D.mode = "single" THEN Put(p0, "text", D.text) ELSE Put(p0, "thread", D.thread)
      withSchedule == wantsSchedule /\ Trim(D.scheduleAt) # ""
      p2 == IF withSchedule THEN Put(p1, "scheduleAt", ToISOString(D.scheduleAt)) ELSE p1
      trimmedClientRequestId == Trim(D.clientRequestId)
      p3 == Put(p2, "clientRequestId",
                IF trimmedClientRequestId # "" THEN trimmedClientRequestId ELSE "web-<now>")
      p4 == IF Len(D.media) > 0
            THEN Put(p3, "media",
                     [i \in 1..Len(D.media) |->
                        [threadIndex |-> IF D.mode = "single" THEN 0 ELSE D.media[i].threadIndex,
                         altText |-> IF Trim(D.media[i].altText) # ""
                                     THEN Trim(D.media[i].altText) ELSE UNDEF]])
            ELSE p3
  IN [threw |-> withSchedule /\ IsInvalidDate(D.scheduleAt), payload |-> p4]

\* the draft as the functions above read it
Draft ==
  [mode |-> mode, text |-> text, thread |-> thread, scheduleAt |-> scheduleAt,
   selectedTargets |-> selectedTargets, clientRequestId |-> clientRequestId,
   media |-> media]

\* the state submit sets, and the request it hands to publish (if any)
Started(sent, nowPublishing, message, isError) ==
  [sent |-> sent, publishing |-> nowPublishing,
   statusMessage |-> message, statusIsError |-> isError]

\* submit after validation, up to the await
submitTry(D, wantsSchedule) ==
  LET built == buildPayload(D, wantsSchedule) IN
  IF built.threw
  THEN Started(<<>>, FALSE, Plain("Invalid time value"), TRUE)
  ELSE Started(<< [payload |-> built.payload,
                   files |-> [i \in 1..Len(D.media) |-> D.media[i].id]] >>,
               TRUE, NoMessage, FALSE)

\* as submitStart, but the request is sent whatever validation says
submitStart_NoGate(D, L, wantsSchedule, wasPublishing) ==
  submitTry(D, wantsSchedule)

\* submit up to the await
submitStart(D, L, wantsSchedule, wasPublishing) ==
  LET errors == getValidationErrors(D, L, wantsSchedule) IN
  IF Len(errors) > 0
  THEN Started(<<>>, wasPublishing, errors[1], TRUE)
  ELSE submitTry(D, wantsSchedule)

\* publish: JSON when there is no file, multipart otherwise
publish(payload, files) ==
  [path |-> IF Len(files) = 0 THEN "json" ELSE "multipart",
   payload |-> payload, files |-> files]

\* no save request is being handled
SavesIdle == saves = <<>> /\ lastWriter = 0

\* configured prop: null before the settings are loaded
NoConfigured == [loaded |-> FALSE, x |-> FALSE, bluesky |-> FALSE, mastodon |-> FALSE]

\* localStorage without a draft (loadDraft returns null)
NoDraft == [present |-> FALSE]

\* the pane has no configured prop yet and no draft is stored
PaneUnset ==
  /\ configured = NoConfigured
  /\ initializedTargetsRef = FALSE
  /\ savedDraft = NoDraft

NoArgs == [kind |-> "none"]

NoResult == [kind |-> "none"]

\* useState initial values; no function call is being examined
ComposeMounted ==
  /\ mode = "single"
  /\ text = EmptyText
  /\ thread = <<EmptyText, EmptyText>>
  /\ scheduleAt = ""
  /\ selectedTargets = DEFAULT_TARGETS
  /\ clientRequestId = ""
  /\ media = <<>>
  /\ limits = NoLimits
  /\ publishing = FALSE
  /\ statusMessage = NoMessage
  /\ statusIsError = FALSE
  /\ lastResponse = NoResponse
  /\ inflight = <<>>
  /\ wantsScheduleArg = FALSE
  /\ called = "mount"
  /\ callArgs = NoArgs
  /\ callResult = NoResult

(***************************************************************************)
(* Inputs                                                                  *)
(***************************************************************************)
\* the number of media file parts a multipart request can carry
MaxFiles == 2

SecretFields ==
  {"gatewayApiKey", "xAuthToken", "blueskyIdentifier", "blueskyPdsUrl",
   "blueskyAppPassword", "mastodonInstanceUrl", "mastodonAccessToken",
   "mastodonVisibility"}

\* The fields of a POST /api/settings/secrets body (ABSENT: the key is not sent)
KeyParts ==
  [gatewayApiKey : {ABSENT, "", " key2 "},
   xAuthToken : {ABSENT, NONSTRING, " tok1 "}]

BlueskyParts ==
  [blueskyIdentifier : {ABSENT, "", "alice"},
   blueskyPdsUrl : {ABSENT, "", "https://bsky.social/", "bsky.social"},
   blueskyAppPassword : {ABSENT, "  ", "pw1"}]

MastodonParts ==
  [mastodonInstanceUrl : {ABSENT, "", "https://m.social", "ftp://m.social"},
   mastodonAccessToken : {ABSENT, "", "mt1"},
   mastodonVisibility : {ABSENT, "", "unlisted"}]

KeysUntouched == [gatewayApiKey |-> ABSENT, xAuthToken |-> ABSENT]

BlueskyUntouched ==
  [blueskyIdentifier |-> ABSENT, blueskyPdsUrl |-> ABSENT, blueskyAppPassword |-> ABSENT]

MastodonUntouched ==
  [mastodonInstanceUrl |-> ABSENT, mastodonAccessToken |-> ABSENT, mastodonVisibility |-> ABSENT]

\* Bluesky and Mastodon tuples sent together: complete, partial and cleared
BlueskySamples ==
  { [blueskyIdentifier |-> "alice", blueskyPdsUrl |-> "https://bsky.social/", blueskyAppPassword |-> "pw1"],
    [blueskyIdentifier |-> "alice", blueskyPdsUrl |-> ABSENT, blueskyAppPassword |-> ABSENT],
    [blueskyIdentifier |-> "", blueskyPdsUrl |-> "", blueskyAppPassword |-> ""] }

MastodonSamples ==
  { [mastodonInstanceUrl |-> "https://m.social", mastodonAccessToken |-> "mt1", mastodonVisibility |-> "unlisted"],
    [mastodonInstanceUrl |-> "https://m.social", mastodonAccessToken |-> ABSENT, mastodonVisibility |-> ABSENT],
    [mastodonInstanceUrl |-> "", mastodonAccessToken |-> "", mastodonVisibility |-> "public"] }

\* Request bodies of POST /api/settings/secrets: every combination of the key
\* fields with every Bluesky tuple, with every Mastodon tuple, and the sampled
\* Bluesky and Mastodon tuples together
SecretBodies ==
  { k @@ b @@ MastodonUntouched : k \in KeyParts, b \in BlueskyParts }
    \cup { k @@ BlueskyUntouched @@ m : k \in KeyParts, m \in MastodonParts }
    \cup { k @@ b @@ m : k \in {KeysUntouched, [gatewayApiKey |-> " key2 ", xAuthToken |-> ABSENT]},
                         b \in BlueskySamples, m \in MastodonSamples }

GatewayBodies ==
  [gatewayBaseUrl : {ABSENT, "http://gw.local:9000/?q=1#h", "ftp://m.social", "bsky.social"}]

SelectionKeys == {"x", "bluesky", "mastodon", "other"}

\* selectedTargets values: every object over x, bluesky, mastodon (and an
\* unknown key), plus the non-object values
Selections ==
  {SelObject(o) : o \in UNION {[K -> BOOLEAN] : K \in {PlatformSet, SelectionKeys}}}
    \cup {SelObject([other |-> TRUE]), Nullish, SelString(3), SelPrimitive}

\* a `targets` object written by the client (EmptyObject: none is sent)
ClientTargets ==
  [x |-> [authToken |-> "client-token", client |-> "web"],
   bluesky |-> [identifier |-> "mallory", pdsUrl |-> "https://bsky.social",
                appPassword |-> "client-password"]]

\* the rest of a client payload
PayloadContents ==
  { [text |-> "hello", thread |-> NotArray, scheduleAt |-> ABSENT,
     clientRequestId |-> ABSENT, media |-> NotArray, targets |-> EmptyObject],
    [text |-> ABSENT, thread |-> [isArray |-> TRUE, items |-> <<"one", NONSTRING, UNDEF>>],
     scheduleAt |-> "2030-01-01T00:00:00.000Z", clientRequestId |-> " req-1 ",
     media |-> [isArray |-> TRUE,
                items |-> << [threadIndex |-> [t |-> "number", n |-> 1], altText |-> " alt "],
                             [threadIndex |-> [t |-> "number", n |-> -1], altText |-> ""] >>],
     targets |-> ClientTargets],
    [text |-> "", thread |-> [isArray |-> TRUE, items |-> <<>>], scheduleAt |-> "  ",
     clientRequestId |-> NONSTRING, media |-> [isArray |-> TRUE, items |-> <<>>],
     targets |-> ClientTargets] }

ClientPayloads ==
  { [text |-> c.text, thread |-> c.thread, scheduleAt |-> c.scheduleAt,
     clientRequestId |-> c.clientRequestId, media |-> c.media, targets |-> c.targets,
     selectedTargets |-> sel] : c \in PayloadContents, sel \in Selections }

PostRequests ==
  { [route |-> "posts", path |-> "multipart", shape |-> sh, payload |-> EmptyClientPayload, files |-> n]
      : sh \in {"missing", "invalid", "null", "primitive"}, n \in 0..MaxFiles }
  \cup { [route |-> "posts", path |-> "multipart", shape |-> "object", payload |-> cp, files |-> n]
      : cp \in ClientPayloads, n \in 0..MaxFiles }
  \cup { [route |-> "posts", path |-> "json", shape |-> sh, payload |-> EmptyClientPayload, files |-> 0]
      : sh \in {"null", "primitive"} }
  \cup { [route |-> "posts", path |-> "json", shape |-> "object", payload |-> cp, files |-> 0]
      : cp \in ClientPayloads }

NetOutcomes ==
  {NetThrows, NetResponse("unreadable", 200, "text/plain", "Bad Gateway")}
    \cup { NetResponse("response", st, ct, tx)
             : st \in {200, 502},
               ct \in {ABSENT, "application/json; charset=utf-8",
                       "application/problem+json", "text/plain"},
               tx \in {"{ \"a\" : 1 }", "Bad Gateway"} }

\* the outcomes tried for a publish request
PostNetOutcomes ==
  {NetThrows,
   NetResponse("unreadable", 200, "application/json; charset=utf-8", "{ \"a\" : 1 }"),
   NetResponse("response", 200, "application/json; charset=utf-8", "{ \"a\" : 1 }"),
   NetResponse("response", 502, "text/plain", "Bad Gateway")}

JobIds == {"job-1"}

\* the same store with every secret value replaced by another one
AltSecrets(s) ==
  [k \in DOMAIN s |->
     CASE k = "gatewayApiKey" -> "other-key"
       [] k = "x" -> [authToken |-> "other-token"]
       [] k = "bluesky" -> [s[k] EXCEPT !.appPassword = "other-password"]
       [] OTHER -> [s[k] EXCEPT !.accessToken = "other-access-token"]]

(***************************************************************************)
(* The helper as a state machine: one request is answered at a time        *)
(***************************************************************************)
Init ==
  /\ secrets = EmptyObject
  /\ config = [gatewayBaseUrl |-> DEFAULT_GATEWAY_BASE_URL]
  /\ request = [route |-> "none"]
  /\ reply = NoReply
  /\ replyAlt = NoReply
  /\ upstream = NoUpstream
  /\ fetches = <<>>
  /\ wrote = FALSE
  /\ SavesIdle
  /\ PaneUnset
  /\ resolveArgs = NoArgs
  /\ resolveResult = NoResult
  /\ ComposeMounted

Idle == reply = NoReply

GetSettings ==
  /\ Idle
  /\ request' = [route |-> "settings"]
  /\ reply' = settingsGet(secrets, config)
  /\ replyAlt' = settingsGet(AltSecrets(secrets), config)
  /\ UNCHANGED <<secrets, config, upstream, fetches, wrote, resolverVars, composeVars, callVars, saveVars, mountVars>>

PostSettingsGateway(body) ==
  /\ Idle
  /\ request' = [route |-> "gateway", body |-> body]
  /\ LET out == settingsGateway(config, body) IN
       /\ reply' = out.reply
       /\ replyAlt' = out.reply
       /\ config' = out.config
  /\ UNCHANGED <<secrets, upstream, fetches, wrote, resolverVars, composeVars, callVars, saveVars, mountVars>>

PostSettingsSecrets(body) ==
  /\ Idle
  /\ request' = [route |-> "secrets", body |-> body]
  /\ LET out == settingsSecrets(secrets, body)
         alt == settingsSecrets(AltSecrets(secrets), body)
     IN /\ reply' = out.reply
        /\ replyAlt' = alt.reply
        /\ secrets' = out.secrets
        /\ wrote' = out.wrote
  /\ UNCHANGED <<config, upstream, fetches, resolverVars, composeVars, callVars, saveVars, mountVars>>

\* a relay route: the reply and the upstream request of `out`
Relay(req, out, alt) ==
  /\ Idle
  /\ request' = req
  /\ reply' = out.reply
  /\ replyAlt' = alt.reply
  /\ upstream' = out.upstream
  /\ fetches' = out.fetches
  /\ UNCHANGED <<secrets, config, wrote, resolverVars, composeVars, callVars, saveVars, mountVars>>

GetLimits(net) ==
  Relay([route |-> "limits", net |-> net],
        limitsRoute(secrets, config, net),
        limitsRoute(AltSecrets(secrets), config, net))

PostPosts(req, net) ==
  Relay([req EXCEPT !.route = "posts"] @@ [net |-> net],
        postsRoute(secrets, config, req, net),
        postsRoute(AltSecrets(secrets), config, req, net))

GetJobs(net) ==
  Relay([route |-> "jobs", net |-> net],
        jobsRoute(secrets, config, net),
        jobsRoute(AltSecrets(secrets), config, net))

GetJob(jobId, net) ==
  Relay([route |-> "job", jobId |-> jobId, net |-> net],
        jobRoute(secrets, config, jobId, net),
        jobRoute(AltSecrets(secrets), config, jobId, net))

DeleteJob(jobId, net) ==
  Relay([route |-> "job-delete", jobId |-> jobId, net |-> net],
        jobDeleteRoute(secrets, config, jobId, net),
        jobDeleteRoute(AltSecrets(secrets), config, jobId, net))

\* the caller has read the reply; the helper is ready for the next request
Deliver ==
  /\ ~Idle
  /\ request' = [route |-> "none"]
  /\ reply' = NoReply
  /\ replyAlt' = NoReply
  /\ upstream' = NoUpstream
  /\ fetches' = <<>>
  /\ wrote' = FALSE
  /\ UNCHANGED <<secrets, config, resolverVars, composeVars, callVars, saveVars, mountVars>>

Next ==
  \/ GetSettings
  \/ \E body \in GatewayBodies : PostSettingsGateway(body)
  \/ \E body \in SecretBodies : PostSettingsSecrets(body)
  \/ \E net \in NetOutcomes : GetLimits(net)
  \/ \E req \in PostRequests, net \in PostNetOutcomes : PostPosts(req, net)
  \/ \E net \in NetOutcomes : GetJobs(net)
  \/ \E jobId \in JobIds, net \in NetOutcomes : GetJob(jobId, net)
  \/ \E jobId \in JobIds, net \in NetOutcomes : DeleteJob(jobId, net)
  \/ Deliver

Spec == Init /\ [][Next]_vars

(***************************************************************************)
(* The resolver on every stored value and selection                        *)
(***************************************************************************)
\* what the keychain entry can hold for each platform: nothing, a partial
\* tuple, a tuple with an empty field, a complete tuple
StoredX == {<<>>, <<[authToken |-> ""]>>, <<[authToken |-> "tok1"]>>}

StoredBluesky ==
  {<<>>,
   <<[identifier |-> "alice"]>>,
   <<[identifier |-> "alice", pdsUrl |-> "https://bsky.social"]>>,
   <<[identifier |-> "alice", pdsUrl |-> "https://bsky.social", appPassword |-> ""]>>,
   <<[identifier |-> "alice", pdsUrl |-> "https://bsky.social", appPassword |-> "pw1"]>>}

StoredMastodon ==
  {<<>>,
   <<[instanceUrl |-> "https://m.social"]>>,
   <<[instanceUrl |-> "https://m.social", accessToken |-> "", visibility |-> "public"]>>,
   <<[instanceUrl |-> "https://m.social", accessToken |-> "mt1"]>>,
   <<[instanceUrl |-> "https://m.social", accessToken |-> "mt1", visibility |-> "unlisted"]>>}

StoreOf(x, b, m) ==
  LET opt == [p \in PlatformSet |-> CASE p = "x" -> x [] p = "bluesky" -> b [] OTHER -> m] IN
  [p \in {q \in PlatformSet : opt[q] # <<>>} |-> opt[p][1]]

StoredValues == {StoreOf(x, b, m) : x \in StoredX, b \in StoredBluesky, m \in StoredMastodon}

ResolveInputs ==
  [kind : {"args"}, secrets : StoredValues, requestedTargets : Selections]

InitResolve ==
  /\ secrets = EmptyObject
  /\ config = [gatewayBaseUrl |-> DEFAULT_GATEWAY_BASE_URL]
  /\ request = [route |-> "none"]
  /\ reply = NoReply
  /\ replyAlt = NoReply
  /\ upstream = NoUpstream
  /\ fetches = <<>>
  /\ wrote = FALSE
  /\ SavesIdle
  /\ PaneUnset
  /\ resolveArgs \in ResolveInputs
  /\ resolveResult = NoResult
  /\ ComposeMounted

ResolveTargets ==
  /\ resolveResult = NoResult
  /\ resolveResult' = [kind |-> "result"]
        @@ resolveTargetsFromSelection(resolveArgs.secrets, resolveArgs.requestedTargets)
  /\ UNCHANGED <<resolveArgs, helperVars, composeVars, callVars, saveVars, mountVars>>

NextResolve == ResolveTargets

SpecResolve == InitResolve /\ [][NextResolve]_vars

(***************************************************************************)
(* Submitting a draft                                                      *)
(***************************************************************************)
MaxInflight == 2

ShortText == Text(3, 0, TRUE)

BlankText == Text(0, 0, TRUE)

\* 280 emoji and one letter: 281 characters, 561 UTF-16 units
OverXText == Text(1, 280, FALSE)

OverBlueskyText == Text(301, 0, FALSE)

LoadedLimits ==
  [loaded |-> TRUE, x |-> 280, bluesky |-> 300, hasMastodon |-> TRUE,
   mastodonCharacters |-> 500, mastodonMedia |-> 4]

MediaEntry(id, type, threadIndex, altText) ==
  [id |-> id, type |-> type, threadIndex |-> threadIndex, altText |-> altText]

\* what the editor can hold in single mode and in thread mode
SingleTexts == {BlankText, ShortText, OverXText, OverBlueskyText}

Threads ==
  {<<ShortText, ShortText>>, <<ShortText, BlankText>>, <<BlankText, EmptyText>>,
   <<OverXText, ShortText>>}

TargetSelections ==
  {[x |-> FALSE, bluesky |-> FALSE, mastodon |-> FALSE],
   [x |-> TRUE, bluesky |-> FALSE, mastodon |-> FALSE],
   [x |-> FALSE, bluesky |-> TRUE, mastodon |-> TRUE],
   DEFAULT_TARGETS}

SingleMedia ==
  {<<>>,
   <<MediaEntry(1, "image", 0, " alt ")>>,
   <<MediaEntry(1, "video", 0, ""), MediaEntry(2, "video", 0, ""),
     MediaEntry(3, "image", 0, "")>>,
   [i \in 1..5 |-> MediaEntry(i, "image", 0, "")]}

ThreadMedia ==
  SingleMedia \cup {<<MediaEntry(1, "video", 1, ""), MediaEntry(2, "image", 1, "")>>}

ScheduleValues == {"", "2030-01-01T10:00", "not-a-date"}

\* a publish answer: 2xx with a PublishResponse, or 2xx with an empty JSON body
PublishResponse(scheduled, overall, jobId) ==
  [scheduled |-> scheduled, overall |-> overall, jobId |-> jobId]

NullResponse == PublishResponse(FALSE, "<null>", UNDEF)

PublishResponses ==
  {PublishResponse(TRUE, "<absent>", "job-1"),
   PublishResponse(FALSE, "success", UNDEF),
   PublishResponse(FALSE, "partial", UNDEF),
   PublishResponse(FALSE, "failed", UNDEF),
   NullResponse}

\* error.message of what publish rejects with
PublishErrors == {"Failed to fetch", "Missing required credentials: x"}

InitSubmit ==
  /\ secrets = EmptyObject
  /\ config = [gatewayBaseUrl |-> DEFAULT_GATEWAY_BASE_URL]
  /\ request = [route |-> "none"]
  /\ reply = NoReply
  /\ replyAlt = NoReply
  /\ upstream = NoUpstream
  /\ fetches = <<>>
  /\ wrote = FALSE
  /\ SavesIdle
  /\ PaneUnset
  /\ resolveArgs = NoArgs
  /\ resolveResult = NoResult
  /\ \/ /\ mode = "single"
        /\ text \in SingleTexts
        /\ thread = <<EmptyText, EmptyText>>
        /\ media \in SingleMedia
     \/ /\ mode = "thread"
        /\ text = EmptyText
        /\ thread \in Threads
        /\ media \in ThreadMedia
  /\ scheduleAt \in ScheduleValues
  /\ selectedTargets \in TargetSelections
  /\ clientRequestId \in {"", " req-1 "}
  /\ limits \in {NoLimits, LoadedLimits}
  /\ publishing = FALSE
  /\ statusMessage = NoMessage
  /\ statusIsError = FALSE
  /\ lastResponse = NoResponse
  /\ inflight = <<>>
  /\ wantsScheduleArg = FALSE
  /\ called = "mount"
  /\ callArgs = NoArgs
  /\ callResult = NoResult

\* submit(wantsSchedule), from a button, a shortcut or the command palette
Submit(wantsSchedule) ==
  LET started == submitStart(Draft, limits, wantsSchedule, publishing) IN
  /\ Len(inflight) < MaxInflight
  /\ inflight' = inflight \o [i \in 1..Len(started.sent) |->
                                publish(started.sent[i].payload, started.sent[i].files)]
  /\ publishing' = started.publishing
  /\ statusMessage' = started.statusMessage
  /\ statusIsError' = started.statusIsError
  /\ wantsScheduleArg' = wantsSchedule
  /\ called' = "submit"
  /\ UNCHANGED <<draftVars, limits, lastResponse, helperVars, resolverVars, callVars, saveVars, mountVars>>

Without(seq, i) == [k \in 1..(Len(seq) - 1) |-> IF k < i THEN seq[k] ELSE seq[k + 1]]

\* the await of request i settles with a response
PublishResolves(i, response) ==
  /\ i \in 1..Len(inflight)
  /\ inflight' = Without(inflight, i)
  /\ lastResponse' = response
  /\ IF response = NullResponse
     THEN /\ statusMessage' = Plain("Cannot read properties of null")
          /\ statusIsError' = TRUE
          /\ media' = media
     ELSE /\ statusIsError' = FALSE
          /\ statusMessage' =
               IF response.scheduled
               THEN Plain("Scheduled successfully.")
               ELSE IF response.overall = "partial"
               THEN Plain("Published with partial delivery. Review target results below.")
               ELSE Plain("Published successfully.")
          /\ media' = IF response.scheduled \/ response.overall = "success"
                      THEN <<>> ELSE media
  /\ publishing' = FALSE
  /\ called' = "resolve"
  /\ UNCHANGED <<mode, text, thread, scheduleAt, selectedTargets, clientRequestId,
                 limits, wantsScheduleArg, helperVars, resolverVars, callVars, saveVars, mountVars>>

\* the await of request i settles with an error
PublishRejects(i, message) ==
  /\ i \in 1..Len(inflight)
  /\ inflight' = Without(inflight, i)
  /\ statusMessage' = Plain(message)
  /\ statusIsError' = TRUE
  /\ publishing' = FALSE
  /\ called' = "reject"
  /\ UNCHANGED <<draftVars, limits, lastResponse, wantsScheduleArg,
                 helperVars, resolverVars, callVars, saveVars, mountVars>>

NextSubmit ==
  \/ \E wantsSchedule \in BOOLEAN : Submit(wantsSchedule)
  \/ \E i \in 1..MaxInflight, response \in PublishResponses : PublishResolves(i, response)
  \/ \E i \in 1..MaxInflight, message \in PublishErrors : PublishRejects(i, message)

SpecSubmit == InitSubmit /\ [][NextSubmit]_vars

(***************************************************************************)
(* getValidationErrors applied to one draft                                *)
(***************************************************************************)
\* limits with small numbers, to tell a loaded limit from a default
SmallLimits ==
  [loaded |-> TRUE, x |-> 3, bluesky |-> 4, hasMastodon |-> TRUE,
   mastodonCharacters |-> 5, mastodonMedia |-> 1]

\* limits of a helper without Mastodon credentials: no mastodon entry
LimitsWithoutMastodon ==
  [loaded |-> TRUE, x |-> 280, bluesky |-> 300, hasMastodon |-> FALSE,
   mastodonCharacters |-> 0, mastodonMedia |-> 0]

LimitsValues == {NoLimits, LoadedLimits, SmallLimits, LimitsWithoutMastodon}

\* texts at and around each limit; Text(2, 2, FALSE) has 4 characters in 6
\* UTF-16 units, Text(0, 280, FALSE) is 280 emoji
ValidateTexts ==
  {EmptyText, BlankText, ShortText, Text(4, 0, FALSE), Text(2, 2, FALSE),
   Text(6, 0, FALSE), Text(0, 280, FALSE), OverXText, Text(300, 0, FALSE),
   OverBlueskyText, Text(501, 0, FALSE)}

ThreadTexts == {BlankText, ShortText, Text(4, 0, FALSE), OverXText}

ValidateThreads ==
  {<<t>> : t \in {BlankText, ShortText}}
    \cup {<<t1, t2>> : t1, t2 \in ThreadTexts}
    \cup {<<ShortText, BlankText, EmptyText>>, <<BlankText, ShortText, BlankText>>,
          <<BlankText, EmptyText, BlankText>>, <<ShortText, ShortText, Text(6, 0, FALSE)>>}

AllTargetSelections == [PlatformSet -> BOOLEAN]

Images(n, threadIndex) == [i \in 1..n |-> MediaEntry(i, "image", threadIndex, "")]

ValidateMedia ==
  {<<>>,
   Images(1, 0),
   Images(4, 0),
   Images(5, 0),
   <<MediaEntry(1, "video", 0, ""), MediaEntry(2, "video", 0, "")>>,
   <<MediaEntry(1, "video", 0, ""), MediaEntry(2, "image", 0, "")>>,
   <<MediaEntry(1, "video", 0, ""), MediaEntry(2, "video", 0, ""),
     MediaEntry(3, "image", 0, "")>>,
   <<MediaEntry(1, "image", 1, ""), MediaEntry(2, "video", 0, ""),
     MediaEntry(3, "image", 1, "")>>,
   <<MediaEntry(1, "video", 0, ""), MediaEntry(2, "image", 1, "")>>,
   <<MediaEntry(1, "application", 0, ""), MediaEntry(2, "video", 0, "")>>}

\* (wantsSchedule, scheduleAt)
ScheduleCases ==
  {<<FALSE, "">>, <<TRUE, "">>, <<TRUE, "2030-01-01T10:00">>, <<TRUE, "not-a-date">>}

DraftOf(m, t, th, sel, med, at) ==
  [mode |-> m, text |-> t, thread |-> th, scheduleAt |-> at,
   selectedTargets |-> sel, clientRequestId |-> "", media |-> med]

\* the arguments of one call of getValidationErrors
ValidateInput(D, L, wantsSchedule) ==
  [kind |-> "getValidationErrors", draft |-> D, limits |-> L,
   wantsSchedule |-> wantsSchedule]

InitValidate ==
  /\ secrets = EmptyObject
  /\ config = [gatewayBaseUrl |-> DEFAULT_GATEWAY_BASE_URL]
  /\ request = [route |-> "none"]
  /\ reply = NoReply
  /\ replyAlt = NoReply
  /\ upstream = NoUpstream
  /\ fetches = <<>>
  /\ wrote = FALSE
  /\ SavesIdle
  /\ PaneUnset
  /\ resolveArgs = NoArgs
  /\ resolveResult = NoResult
  /\ mode = "single"
  /\ text = EmptyText
  /\ thread = <<EmptyText, EmptyText>>
  /\ scheduleAt = ""
  /\ selectedTargets = DEFAULT_TARGETS
  /\ clientRequestId = ""
  /\ media = <<>>
  /\ limits = NoLimits
  /\ publishing = FALSE
  /\ statusMessage = NoMessage
  /\ statusIsError = FALSE
  /\ lastResponse = NoResponse
  /\ inflight = <<>>
  /\ wantsScheduleArg = FALSE
  /\ called = "mount"
  /\ \E sel \in AllTargetSelections, med \in ValidateMedia,
        sc \in ScheduleCases, L \in LimitsValues :
       \/ \E t \in ValidateTexts :
            callArgs = ValidateInput(
                         DraftOf("single", t, <<EmptyText, EmptyText>>, sel, med, sc[2]),
                         L, sc[1])
       \/ \E th \in ValidateThreads :
            callArgs = ValidateInput(DraftOf("thread", EmptyText, th, sel, med, sc[2]),
                                     L, sc[1])
  /\ callResult = NoResult

Validate ==
  /\ callArgs.kind = "getValidationErrors"
  /\ callResult = NoResult
  /\ callResult' = [kind |-> "errors",
                    errors |-> getValidationErrors(callArgs.draft, callArgs.limits,
                                                   callArgs.wantsSchedule)]
  /\ UNCHANGED <<callArgs, helperVars, resolverVars, composeVars, saveVars, mountVars>>

NextValidate == Validate

SpecValidate == InitValidate /\ [][NextValidate]_vars

(***************************************************************************)
(* buildPayload, buildGatewayPayload and sanitizeMedia applied to one input *)
(***************************************************************************)
MaxMediaItems == 2

ThreadIndexValues ==
  {[t |-> "number", n |-> 0], [t |-> "number", n |-> 2], [t |-> "number", n |-> -1],
   [t |-> "fraction", n |-> 1], [t |-> "string", n |-> 1], [t |-> "string", n |-> -1],
   [t |-> "null", n |-> 0], [t |-> "undefined", n |-> 0]}

AltTextValues == {ABSENT, NONSTRING, "", "  ", " alt ", "alt"}

MediaItems == [threadIndex : ThreadIndexValues, altText : AltTextValues]

\* the `media` arrays of n items a client payload can hold
MediaLists(n) == {[isArray |-> TRUE, items |-> items] : items \in [1..n -> MediaItems]}

ThreadValues ==
  {NotArray,
   [isArray |-> TRUE, items |-> <<>>],
   [isArray |-> TRUE, items |-> <<"one">>],
   [isArray |-> TRUE, items |-> <<"one", NONSTRING, UNDEF>>]}

GatewayPayloadInputs ==
  {[kind |-> "buildGatewayPayload",
    clientPayload |-> [text |-> t, thread |-> th, scheduleAt |-> at,
                       clientRequestId |-> id, media |-> m, targets |-> ct,
                       selectedTargets |-> Nullish],
    targets |-> tg] :
     t \in {ABSENT, NONSTRING, "", "hello"}, th \in ThreadValues,
     at \in {ABSENT, "  ", "2030-01-01T00:00:00.000Z"},
     id \in {ABSENT, " req-1 "},
     m \in {NotArray,
            [isArray |-> TRUE,
             items |-> <<[threadIndex |-> [t |-> "number", n |-> 1], altText |-> " alt "]>>]},
     ct \in {EmptyObject, ClientTargets},
     tg \in {EmptyObject, [x |-> targetBlock([x |-> [authToken |-> "tok1"]], "x")]}}

BuildPayloadInputs ==
  {[kind |-> "buildPayload",
    draft |-> [mode |-> m, text |-> t, thread |-> th, scheduleAt |-> at,
               selectedTargets |-> DEFAULT_TARGETS, clientRequestId |-> id,
               media |-> med],
    wantsSchedule |-> w] :
     m \in {"single", "thread"}, t \in {EmptyText, BlankText, ShortText},
     th \in {<<EmptyText, EmptyText>>, <<ShortText>>, <<ShortText, BlankText>>},
     at \in ScheduleValues, id \in {"", " req-1 "},
     med \in {<<>>, <<MediaEntry(1, "image", 1, " alt ")>>},
     w \in BOOLEAN}

InitPayload ==
  /\ secrets = EmptyObject
  /\ config = [gatewayBaseUrl |-> DEFAULT_GATEWAY_BASE_URL]
  /\ request = [route |-> "none"]
  /\ reply = NoReply
  /\ replyAlt = NoReply
  /\ upstream = NoUpstream
  /\ fetches = <<>>
  /\ wrote = FALSE
  /\ SavesIdle
  /\ PaneUnset
  /\ resolveArgs = NoArgs
  /\ resolveResult = NoResult
  /\ mode = "single"
  /\ text = EmptyText
  /\ thread = <<EmptyText, EmptyText>>
  /\ scheduleAt = ""
  /\ selectedTargets = DEFAULT_TARGETS
  /\ clientRequestId = ""
  /\ media = <<>>
  /\ limits = NoLimits
  /\ publishing = FALSE
  /\ statusMessage = NoMessage
  /\ statusIsError = FALSE
  /\ lastResponse = NoResponse
  /\ inflight = <<>>
  /\ wantsScheduleArg = FALSE
  /\ called = "mount"
  /\ \/ callArgs \in GatewayPayloadInputs
     \/ callArgs \in BuildPayloadInputs
     \/ callArgs = [kind |-> "sanitizeMedia", media |-> NotArray]
     \/ \E n \in 0..MaxMediaItems : \E m \in MediaLists(n) :
          callArgs = [kind |-> "sanitizeMedia", media |-> m]
  /\ callResult = NoResult

BuildPayload ==
  /\ callArgs.kind = "buildPayload"
  /\ callResult = NoResult
  /\ LET built == buildPayload(callArgs.draft, callArgs.wantsSchedule) IN
       callResult' = IF built.threw
                     THEN [kind |-> "threw"]
                     ELSE [kind |-> "payload", payload |-> built.payload]
  /\ UNCHANGED <<callArgs, helperVars, resolverVars, composeVars, saveVars, mountVars>>

BuildGatewayPayload ==
  /\ callArgs.kind = "buildGatewayPayload"
  /\ callResult = NoResult
  /\ callResult' = [kind |-> "gatewayPayload",
                    payload |-> buildGatewayPayload(callArgs.clientPayload, callArgs.targets)]
  /\ UNCHANGED <<callArgs, helperVars, resolverVars, composeVars, saveVars, mountVars>>

SanitizeMedia ==
  /\ callArgs.kind = "sanitizeMedia"
  /\ callResult = NoResult
  /\ callResult' = [kind |-> "media", media |-> sanitizeMedia(callArgs.media)]
  /\ UNCHANGED <<callArgs, helperVars, resolverVars, composeVars, saveVars, mountVars>>

NextPayload == BuildPayload \/ BuildGatewayPayload \/ SanitizeMedia

SpecPayload == InitPayload /\ [][NextPayload]_vars

(***************************************************************************)
(* Two POST /api/settings/secrets requests handled at the same time        *)
(***************************************************************************)
Savers == {1, 2}

\* as writeSecrets, but the keys of the stored value that the new value lacks
\* are kept
writeSecrets_Merge(stored, nextSecrets) ==
  [k \in DOMAIN stored \cup DOMAIN nextSecrets |->
     IF k \in DOMAIN nextSecrets THEN nextSecrets[k] ELSE stored[k]]

\* keytar.setPassword(service, account, JSON.stringify(nextSecrets)): the
\* keychain entry after the call
writeSecrets(stored, nextSecrets) == nextSecrets

\* request bodies: the key fields untouched, set or cleared, with the Bluesky
\* and Mastodon tuples untouched, complete, partial or cleared
SaveBodies ==
  { k @@ b @@ m :
      k \in {KeysUntouched,
             [gatewayApiKey |-> " key2 ", xAuthToken |-> ABSENT],
             [gatewayApiKey |-> ABSENT, xAuthToken |-> " tok1 "],
             [gatewayApiKey |-> "", xAuthToken |-> NONSTRING]},
      b \in BlueskySamples \cup {BlueskyUntouched},
      m \in MastodonSamples \cup {MastodonUntouched} }

\* what the keychain holds when the two requests arrive
SaveStores ==
  {EmptyObject,
   [gatewayApiKey |-> "key1",
    x |-> [authToken |-> "tok0"],
    bluesky |-> [identifier |-> "bob", pdsUrl |-> "https://bsky.social", appPassword |-> "pw0"],
    mastodon |-> [instanceUrl |-> "https://m.social", accessToken |-> "mt0",
                  visibility |-> "public"]]}

Received(body) ==
  [pc |-> "received", body |-> body, current |-> EmptyObject, next |-> EmptyObject,
   reply |-> NoReply]

InitSave ==
  /\ secrets \in SaveStores
  /\ config = [gatewayBaseUrl |-> DEFAULT_GATEWAY_BASE_URL]
  /\ request = [route |-> "none"]
  /\ reply = NoReply
  /\ replyAlt = NoReply
  /\ upstream = NoUpstream
  /\ fetches = <<>>
  /\ wrote = FALSE
  /\ saves \in {[i \in Savers |-> Received(b[i])] : b \in [Savers -> SaveBodies]}
  /\ lastWriter = 0
  /\ PaneUnset
  /\ resolveArgs = NoArgs
  /\ resolveResult = NoResult
  /\ ComposeMounted

\* const current = await readSecrets(), then the handler up to its return or
\* to await writeSecrets(next)
SaveRead(i) ==
  /\ saves[i].pc = "received"
  /\ LET out == settingsSecrets(secrets, saves[i].body) IN
       saves' = [saves EXCEPT ![i] =
                   [pc |-> IF out.wrote THEN "writing" ELSE "done",
                    body |-> saves[i].body,
                    current |-> secrets,
                    next |-> out.secrets,
                    reply |-> IF out.wrote THEN NoReply ELSE out.reply]]
  /\ UNCHANGED <<secrets, config, request, reply, replyAlt, upstream, fetches, wrote,
                 lastWriter, resolverVars, composeVars, callVars, mountVars>>

\* await writeSecrets(next), then the reply
SaveWrite(i) ==
  /\ saves[i].pc = "writing"
  /\ secrets' = writeSecrets(secrets, saves[i].next)
  /\ lastWriter' = i
  /\ saves' = [saves EXCEPT ![i].pc = "done",
                            ![i].reply = settingsSecrets(saves[i].current, saves[i].body).reply]
  /\ UNCHANGED <<config, request, reply, replyAlt, upstream, fetches, wrote,
                 resolverVars, composeVars, callVars, mountVars>>

NextSave == \E i \in Savers : SaveRead(i) \/ SaveWrite(i)

SpecSave == InitSave /\ [][NextSave]_vars

(***************************************************************************)
(* Editing a draft in the compose pane                                     *)
(***************************************************************************)
\* the most thread segments and attached files the editor is taken to
MaxSegments == 2

MaxMedia == 2

\* loadDraft: null when there is no item or thread / media is not an array
loadDraft(item) == IF item.present /\ item.arrays THEN item ELSE NoDraft

\* the draft-load effect: the draft state after it
draftLoadEffect(D, item) ==
  LET draft == loadDraft(item) IN
  IF ~draft.present THEN D
  ELSE [mode |-> draft.mode, text |-> draft.text,
        thread |-> IF Len(draft.thread) > 0 THEN draft.thread ELSE <<EmptyText>>,
        scheduleAt |-> draft.scheduleAt,
        selectedTargets |-> draft.selectedTargets,
        clientRequestId |-> draft.clientRequestId,
        media |-> <<>>]

\* the configured-targets effect: [selectedTargets, initializedTargetsRef]
configuredEffect(selected, c, initialized) ==
  IF ~c.loaded \/ initialized
  THEN [selectedTargets |-> selected, initializedTargetsRef |-> initialized]
  ELSE LET nextTargets == [x |-> c.x, bluesky |-> c.bluesky, mastodon |-> c.mastodon] IN
       IF ~(\E p \in DOMAIN nextTargets : nextTargets[p])
       THEN [selectedTargets |-> selected, initializedTargetsRef |-> TRUE]
       ELSE [selectedTargets |-> nextTargets, initializedTargetsRef |-> TRUE]

\* setTargetEnabled
setTargetEnabled(current, target, enabled) == [current EXCEPT ![target] = enabled]

\* current.filter((_, itemIndex) => itemIndex !== index), index counted from 0
removeAt(current, index) ==
  [k \in 1..(Len(current) - 1) |-> IF k <= index THEN current[k] ELSE current[k + 1]]

\* removeThreadSegment: [thread, media]
removeThreadSegment(currentThread, currentMedia, index) ==
  [thread |-> IF Len(currentThread) <= 1 THEN currentThread
              ELSE removeAt(currentThread, index),
   media |-> [i \in 1..Len(currentMedia) |->
                LET entry == currentMedia[i] IN
                IF entry.threadIndex > index
                THEN [entry EXCEPT !.threadIndex = entry.threadIndex - 1]
                ELSE IF entry.threadIndex = index
                THEN [entry EXCEPT !.threadIndex =
                        IF entry.threadIndex - 1 > 0 THEN entry.threadIndex - 1 ELSE 0]
                ELSE entry]]

\* updateThreadSegment
updateThreadSegment(current, index, nextValue) ==
  [k \in 1..Len(current) |-> IF k - 1 = index THEN nextValue ELSE current[k]]

\* createDraftId: an id no attached entry has
createDraftId(used) == CHOOSE id \in 1..(Cardinality(used) + 1) : id \notin used

RECURSIVE addMediaFiles(_, _)
\* addMediaFiles: files is the list of the types of the files chosen
addMediaFiles(current, files) ==
  IF files = <<>> THEN current
  ELSE addMediaFiles(
         Append(current,
                MediaEntry(createDraftId({current[i].id : i \in 1..Len(current)}),
                           Head(files), 0, "")),
         Tail(files))

\* removeMedia
removeMedia(current, mediaId) == SelectSeq(current, LAMBDA entry : entry.id # mediaId)

\* updateMedia with next = {threadIndex}
updateMedia(current, mediaId, threadIndex) ==
  [i \in 1..Len(current) |->
     IF current[i].id = mediaId
     THEN [current[i] EXCEPT !.threadIndex = threadIndex] ELSE current[i]]

\* configured flags the pane is rendered with: the helper has no platform
\* credentials, or X and Mastodon only
ConfiguredValues ==
  {[loaded |-> TRUE, x |-> FALSE, bluesky |-> FALSE, mastodon |-> FALSE],
   [loaded |-> TRUE, x |-> TRUE, bluesky |-> FALSE, mastodon |-> TRUE]}

\* what saveCurrentDraft left in localStorage in an earlier session
SavedDraft(m, t, th, sel, med) ==
  [present |-> TRUE, arrays |-> TRUE, mode |-> m, text |-> t, thread |-> th,
   scheduleAt |-> "", selectedTargets |-> sel, clientRequestId |-> "", media |-> med]

SavedDrafts ==
  {NoDraft,
   SavedDraft("thread", EmptyText, <<ShortText>>,
              [x |-> FALSE, bluesky |-> TRUE, mastodon |-> FALSE],
              <<[id |-> 1, threadIndex |-> 1, altText |-> ""]>>),
   SavedDraft("single", ShortText, <<EmptyText, EmptyText>>,
              [x |-> TRUE, bluesky |-> TRUE, mastodon |-> FALSE], <<>>)}

\* the pane after its first render, before its effects have run
Rendered ==
  /\ mode = "single"
  /\ text = EmptyText
  /\ thread = <<EmptyText, EmptyText>>
  /\ scheduleAt = ""
  /\ selectedTargets = DEFAULT_TARGETS
  /\ clientRequestId = ""
  /\ media = <<>>
  /\ publishing = FALSE
  /\ statusMessage = NoMessage
  /\ statusIsError = FALSE
  /\ lastResponse = NoResponse
  /\ initializedTargetsRef = FALSE
  /\ called = "render"

InitEdit ==
  /\ secrets = EmptyObject
  /\ config = [gatewayBaseUrl |-> DEFAULT_GATEWAY_BASE_URL]
  /\ request = [route |-> "none"]
  /\ reply = NoReply
  /\ replyAlt = NoReply
  /\ upstream = NoUpstream
  /\ fetches = <<>>
  /\ wrote = FALSE
  /\ SavesIdle
  /\ resolveArgs = NoArgs
  /\ resolveResult = NoResult
  /\ callArgs = NoArgs
  /\ callResult = NoResult
  /\ Rendered
  /\ limits = NoLimits
  /\ inflight = <<>>
  /\ wantsScheduleArg = FALSE
  /\ configured \in ConfiguredValues
  /\ savedDraft \in SavedDrafts

Mounted == called # "render"

editFrame ==
  <<helperVars, resolverVars, callVars, saveVars, limits, publishing, statusMessage,
    statusIsError, lastResponse, inflight, wantsScheduleArg, savedDraft>>

\* the effects of the mount, in the order of their declaration
MountEffects ==
  /\ called = "render"
  /\ LET loaded == draftLoadEffect(Draft, savedDraft)
         targets == configuredEffect(loaded.selectedTargets, configured, initializedTargetsRef)
     IN /\ mode' = loaded.mode
        /\ text' = loaded.text
        /\ thread' = loaded.thread
        /\ scheduleAt' = loaded.scheduleAt
        /\ clientRequestId' = loaded.clientRequestId
        /\ media' = loaded.media
        /\ selectedTargets' = targets.selectedTargets
        /\ initializedTargetsRef' = targets.initializedTargetsRef
  /\ called' = "effects"
  /\ UNCHANGED <<editFrame, configured>>

\* the settings are loaded again: a new configured prop, and the effect that
\* depends on it
ConfiguredChanges(c) ==
  /\ Mounted
  /\ c # configured
  /\ configured' = c
  /\ LET targets == configuredEffect(selectedTargets, c, initializedTargetsRef) IN
       /\ selectedTargets' = targets.selectedTargets
       /\ initializedTargetsRef' = targets.initializedTargetsRef
  /\ called' = "effects"
  /\ UNCHANGED <<editFrame, mode, text, thread, scheduleAt, clientRequestId, media>>

\* the page is loaded again: a new pane, rendered with the settings then loaded
Remount(c) ==
  /\ Mounted
  /\ mode' = "single"
  /\ text' = EmptyText
  /\ thread' = <<EmptyText, EmptyText>>
  /\ scheduleAt' = ""
  /\ selectedTargets' = DEFAULT_TARGETS
  /\ clientRequestId' = ""
  /\ media' = <<>>
  /\ publishing' = FALSE
  /\ statusMessage' = NoMessage
  /\ statusIsError' = FALSE
  /\ lastResponse' = NoResponse
  /\ initializedTargetsRef' = FALSE
  /\ called' = "render"
  /\ configured' = c
  /\ UNCHANGED <<helperVars, resolverVars, callVars, saveVars, limits, inflight,
                 wantsScheduleArg, savedDraft>>

SetTargetEnabled(target, enabled) ==
  /\ Mounted
  /\ selectedTargets' = setTargetEnabled(selectedTargets, target, enabled)
  /\ called' = "edit"
  /\ UNCHANGED <<editFrame, configured, initializedTargetsRef, mode, text, thread,
                 scheduleAt, clientRequestId, media>>

SetMode(m) ==
  /\ Mounted
  /\ mode' = m
  /\ called' = "edit"
  /\ UNCHANGED <<editFrame, configured, initializedTargetsRef, text, thread, scheduleAt,
                 selectedTargets, clientRequestId, media>>

SetText(t) ==
  /\ Mounted
  /\ mode = "single"
  /\ text' = t
  /\ called' = "edit"
  /\ UNCHANGED <<editFrame, configured, initializedTargetsRef, mode, thread, scheduleAt,
                 selectedTargets, clientRequestId, media>>

AddThreadSegment ==
  /\ Mounted
  /\ mode = "thread"
  /\ Len(thread) < MaxSegments
  /\ thread' = Append(thread, EmptyText)
  /\ called' = "edit"
  /\ UNCHANGED <<editFrame, configured, initializedTargetsRef, mode, text, scheduleAt,
                 selectedTargets, clientRequestId, media>>

\* the button is rendered for each segment when the thread has more than one
RemoveThreadSegment(index) ==
  /\ Mounted
  /\ mode = "thread"
  /\ Len(thread) > 1
  /\ index \in 0..(Len(thread) - 1)
  /\ LET removed == removeThreadSegment(thread, media, index) IN
       /\ thread' = removed.thread
       /\ media' = removed.media
  /\ called' = "edit"
  /\ UNCHANGED <<editFrame, configured, initializedTargetsRef, mode, text, scheduleAt,
                 selectedTargets, clientRequestId>>

UpdateThreadSegment(index, nextValue) ==
  /\ Mounted
  /\ mode = "thread"
  /\ index \in 0..(Len(thread) - 1)
  /\ thread' = updateThreadSegment(thread, index, nextValue)
  /\ called' = "edit"
  /\ UNCHANGED <<editFrame, configured, initializedTargetsRef, mode, text, scheduleAt,
                 selectedTargets, clientRequestId, media>>

AddMediaFiles(files) ==
  /\ Mounted
  /\ Len(files) > 0
  /\ Len(media) + Len(files) <= MaxMedia
  /\ media' = addMediaFiles(media, files)
  /\ called' = "edit"
  /\ UNCHANGED <<editFrame, configured, initializedTargetsRef, mode, text, thread,
                 scheduleAt, selectedTargets, clientRequestId>>

RemoveMedia(mediaId) ==
  /\ Mounted
  /\ \E i \in 1..Len(media) : media[i].id = mediaId
  /\ media' = removeMedia(media, mediaId)
  /\ called' = "edit"
  /\ UNCHANGED <<editFrame, configured, initializedTargetsRef, mode, text, thread,
                 scheduleAt, selectedTargets, clientRequestId>>

\* the segment Select of an entry: rendered in thread mode, one item per segment
UpdateMedia(mediaId, segmentIndex) ==
  /\ Mounted
  /\ mode = "thread"
  /\ \E i \in 1..Len(media) : media[i].id = mediaId
  /\ segmentIndex \in 0..(Len(thread) - 1)
  /\ media' = updateMedia(media, mediaId, segmentIndex)
  /\ called' = "edit"
  /\ UNCHANGED <<editFrame, configured, initializedTargetsRef, mode, text, thread,
                 scheduleAt, selectedTargets, clientRequestId>>

\* the lists of files one choice in the file dialog can give
FileLists == UNION {[1..n -> {"image", "video"}] : n \in 1..MaxMedia}

NextEdit ==
  \/ MountEffects
  \/ \E c \in ConfiguredValues : ConfiguredChanges(c)
  \/ \E c \in ConfiguredValues : Remount(c)
  \/ \E target \in {"x", "bluesky"}, enabled \in BOOLEAN : SetTargetEnabled(target, enabled)
  \/ \E m \in {"single", "thread"} : SetMode(m)
  \/ SetText(ShortText)
  \/ AddThreadSegment
  \/ \E index \in 0..(MaxSegments - 1) : RemoveThreadSegment(index)
  \/ \E index \in 0..(MaxSegments - 1) : UpdateThreadSegment(index, ShortText)
  \/ \E files \in FileLists : AddMediaFiles(files)
  \/ \E mediaId \in 1..MaxMedia : RemoveMedia(mediaId)
  \/ \E mediaId \in 1..MaxMedia, segmentIndex \in 0..(MaxSegments - 1) :
       UpdateMedia(mediaId, segmentIndex)

SpecEdit == InitEdit /\ [][NextEdit]_vars

(***************************************************************************)
(* Properties of the helper                                                *)
(***************************************************************************)
IsPosts == request.route = "posts"

\* the request reached the resolver (it was not rejected for its shape)
ReachedResolver ==
  IsPosts /\ ~(request.path = "multipart" /\ request.shape \in {"missing", "invalid", "null"})

\* the client payload the handler resolves
RequestPayload ==
  IF request.shape = "object" THEN request.payload ELSE EmptyClientPayload

Resolved == resolveTargetsFromSelection(secrets, RequestPayload.selectedTargets)

Range(seq) == {seq[i] : i \in 1..Len(seq)}

ProblemIs(status, title) ==
  /\ reply.kind = "problem"
  /\ reply.status = status
  /\ reply.body.status = status
  /\ reply.body.title = title

Relayed == upstream.kind = "request"

\* C1: POST /api/posts (JSON and multipart) makes an upstream request only
\* when the resolver reports selectedCount >= 1 and no missing platform; with
\* selectedCount = 0 the reply is 400 "No targets selected", otherwise with a
\* non-empty missing list it is 400 "Missing credentials" naming exactly the
\* missing platforms; neither rejection makes an upstream request.
C1_PostsGate ==
  ReachedResolver =>
    /\ Relayed => (Resolved.selectedCount >= 1 /\ Resolved.missing = <<>>)
    /\ Resolved.selectedCount = 0 =>
         (ProblemIs(400, "No targets selected") /\ ~Relayed)
    /\ (Resolved.selectedCount > 0 /\ Resolved.missing # <<>>) =>
         /\ ProblemIs(400, "Missing credentials")
         /\ Range(Tail(reply.body.detail)) = Range(Resolved.missing)
         /\ Len(reply.body.detail) = 1 + Len(Resolved.missing)
         /\ ~Relayed

C1_Witness ==
  /\ IsPosts
  /\ request.path = "multipart"
  /\ reply.kind = "problem"
  /\ reply.body.title = "Missing credentials"
  /\ reply.body.detail = <<"Credentials missing for:", "x", "mastodon">>
  /\ "bluesky" \in DOMAIN secrets

\* the platform was asked for: by the selection, or by the automatic selection
\* when the request gives none
AskedFor(p) ==
  LET sel == RequestPayload.selectedTargets IN
  sel.kind = "nullish" \/ Selects(sel, p)

\* every field of the stored tuple of p is a non-empty string
StoredComplete(s, p) ==
  /\ p \in DOMAIN s
  /\ CASE p = "x" -> DOMAIN s[p] = {"authToken"}
       [] p = "bluesky" -> DOMAIN s[p] = {"identifier", "pdsUrl", "appPassword"}
       [] OTHER -> DOMAIN s[p] = {"instanceUrl", "accessToken", "visibility"}
  /\ \A f \in DOMAIN s[p] : Truthy(s[p][f])

\* C2: in every payload sent to upstream /v1/posts, `targets` is the
\* resolver's output: its keys are among x, bluesky, mastodon, each key was
\* selected and has a complete stored tuple, its values are the stored
\* secrets, and nothing the client put in `targets` is forwarded.
C2_TargetsFromResolver ==
  (Relayed /\ upstream.route = <<"/v1/posts">>) =>
    LET targets == upstream.body.payload["targets"] IN
    /\ targets = Resolved.targets
    /\ DOMAIN targets \subseteq PlatformSet
    /\ \A p \in DOMAIN targets :
         /\ AskedFor(p)
         /\ StoredComplete(secrets, p)
         /\ \A f \in DOMAIN secrets[p] : targets[p][f] = secrets[p][f]
         /\ DOMAIN targets[p] \ DOMAIN secrets[p] \subseteq {"client"}
    /\ DOMAIN upstream.body.payload \subseteq
         {"targets", "text", "thread", "scheduleAt", "clientRequestId", "media"}

C2_Witness ==
  /\ Relayed
  /\ upstream.route = <<"/v1/posts">>
  /\ request.shape = "object"
  /\ request.payload.targets = ClientTargets
  /\ DOMAIN upstream.body.payload["targets"] = {"x", "mastodon"}

\* C4: a reply the helper builds itself does not depend on the values of the
\* stored secrets: it is the reply the same request gets from a store that
\* differs only in those values, and the settings replies carry only booleans
\* and the non-secret profile fields.
C4_NoSecretInReply ==
  /\ reply.kind \in {"json", "problem"} => reply = replyAlt
  /\ (reply.kind = "json" /\ request.route \in {"settings", "secrets"}) =>
       /\ \A k \in DOMAIN reply.body.configured : reply.body.configured[k] \in BOOLEAN
       /\ DOMAIN reply.body.profile =
            {"blueskyIdentifier", "blueskyPdsUrl", "mastodonInstanceUrl", "mastodonVisibility"}
       /\ DOMAIN reply.body \subseteq {"gatewayBaseUrl", "configured", "profile"}

C4_Witness ==
  /\ request.route = "settings"
  /\ reply.kind = "json"
  /\ DOMAIN secrets = {"gatewayApiKey", "x", "bluesky", "mastodon"}
  /\ reply.body.profile.blueskyIdentifier = "alice"

\* every platform tuple in the store is complete and the key is non-empty
StoreWellFormed(s) ==
  /\ DOMAIN s \subseteq {"gatewayApiKey", "x", "bluesky", "mastodon"}
  /\ "gatewayApiKey" \in DOMAIN s => Truthy(s["gatewayApiKey"])
  /\ \A p \in PlatformSet : p \in DOMAIN s => StoredComplete(s, p)

\* C6: starting from the empty store, after any sequence of accepted or
\* rejected save requests every platform tuple in the store is absent or
\* complete, and configured.<platform> is true exactly when the platform's key
\* is in the store.
C6_AllOrNothing ==
  /\ StoreWellFormed(secrets)
  /\ \A p \in PlatformSet : summarizeSecrets(secrets)[p] <=> (p \in DOMAIN secrets)
  /\ summarizeSecrets(secrets).gatewayApiKey <=> ("gatewayApiKey" \in DOMAIN secrets)

C6_Witness ==
  /\ request.route = "secrets"
  /\ reply.kind = "problem"
  /\ DOMAIN secrets = {"x", "bluesky", "mastodon"}
  /\ secrets["mastodon"]["visibility"] = "public"

\* a field of a save request that carries no value / a value
NotSet(v) == v \in {ABSENT, NONSTRING, "", "  "}

IsSet(v) == ~NotSet(v)

\* the field values that are http(s) URLs
IsHttpUrl(v) ==
  v \in {"https://bsky.social/", "https://bsky.social", " https://bsky.social/ ",
         "https://m.social", "http://gw.local:9000/?q=1#h"}

IsSecretsRequest(req) == req.route = "secrets"

OnlyBlueskyIdentifier(body) ==
  /\ IsSet(body.blueskyIdentifier)
  /\ NotSet(body.blueskyPdsUrl)
  /\ NotSet(body.blueskyAppPassword)

AllBlueskySet(body) ==
  /\ IsSet(body.blueskyIdentifier)
  /\ IsSet(body.blueskyPdsUrl)
  /\ IsSet(body.blueskyAppPassword)

\* exactly one of a usable instance URL and an access token
MastodonHalfSet(body) ==
  IsHttpUrl(body.mastodonInstanceUrl) # IsSet(body.mastodonAccessToken)

\* the request is answered 400 and the store is as it was
RejectedStep ==
  /\ reply'.kind = "problem"
  /\ reply'.status = 400
  /\ secrets' = secrets
  /\ ~wrote'

SavedBlueskyStep ==
  /\ reply'.kind = "json"
  /\ reply'.status = 200
  /\ reply'.body.configured.bluesky
  /\ "bluesky" \in DOMAIN secrets'

\* C5 as stated: a request with only the Bluesky identifier set is rejected
\* with 400 and writes nothing; a request with identifier, PDS URL and app
\* password all set succeeds and reports configured.bluesky = true.
C5_AsStated ==
  [][ IsSecretsRequest(request') =>
        /\ OnlyBlueskyIdentifier(request'.body) => RejectedStep
        /\ AllBlueskySet(request'.body) => SavedBlueskyStep ]_vars

\* C5 (amended): a request with only the Bluesky identifier set is rejected
\* with 400 and writes nothing, whatever else it carries; a request with
\* identifier and app password set and a PDS URL that is a valid http(s) URL,
\* whose Mastodon fields are not half set, succeeds and reports
\* configured.bluesky = true.
C5_BlueskyTuple ==
  [][ IsSecretsRequest(request') =>
        /\ OnlyBlueskyIdentifier(request'.body) => RejectedStep
        /\ ( /\ AllBlueskySet(request'.body)
             /\ IsHttpUrl(request'.body.blueskyPdsUrl)
             /\ ~MastodonHalfSet(request'.body) ) => SavedBlueskyStep ]_vars

C5_Witness ==
  /\ IsSecretsRequest(request)
  /\ OnlyBlueskyIdentifier(request.body)
  /\ request.body.gatewayApiKey = " key2 "
  /\ request.body.xAuthToken = " tok1 "
  /\ reply.kind = "problem"
  /\ reply.body.title = "Bluesky credentials incomplete"
  /\ DOMAIN secrets = {"mastodon"}

MastodonFields == {"mastodonInstanceUrl", "mastodonAccessToken", "mastodonVisibility"}

\* at least one field of the tuple has a value and at least one has none
MastodonPartlyFilled(body) ==
  /\ \E f \in MastodonFields : IsSet(body[f])
  /\ \E f \in MastodonFields : NotSet(body[f])

MastodonRemovedStep == "mastodon" \in DOMAIN secrets /\ "mastodon" \notin DOMAIN secrets'

\* C7 as stated: a request whose Mastodon fields (instanceUrl, accessToken,
\* visibility) are partly filled is answered 400 and writes nothing, and the
\* stored tuple is removed only by a request in which every Mastodon field is
\* empty.
C7_AsStated ==
  [][ IsSecretsRequest(request') =>
        /\ MastodonPartlyFilled(request'.body) => RejectedStep
        /\ MastodonRemovedStep => \A f \in MastodonFields : NotSet(request'.body[f]) ]_vars

\* C7 (amended): a request in which exactly one of instanceUrl (a valid
\* http(s) URL) and accessToken is set is answered 400 and writes nothing;
\* visibility is outside the rule; the stored tuple is removed only by a
\* request that sends a Mastodon field with neither a valid instanceUrl nor an
\* accessToken, and such a request, when accepted, leaves no Mastodon tuple.
C7_MastodonTuple ==
  [][ IsSecretsRequest(request') =>
        /\ MastodonHalfSet(request'.body) => RejectedStep
        /\ MastodonRemovedStep =>
             /\ \E f \in MastodonFields : request'.body[f] # ABSENT
             /\ ~IsHttpUrl(request'.body.mastodonInstanceUrl)
             /\ NotSet(request'.body.mastodonAccessToken)
        /\ ( /\ \E f \in MastodonFields : request'.body[f] # ABSENT
             /\ ~IsHttpUrl(request'.body.mastodonInstanceUrl)
             /\ NotSet(request'.body.mastodonAccessToken)
             /\ wrote' ) => "mastodon" \notin DOMAIN secrets' ]_vars

C7_Witness ==
  /\ IsSecretsRequest(request)
  /\ request.body.mastodonInstanceUrl = "https://m.social"
  /\ NotSet(request.body.mastodonAccessToken)
  /\ reply.kind = "problem"
  /\ reply.body.title = "Mastodon credentials incomplete"
  /\ "mastodon" \in DOMAIN secrets

IsRelayRoute(req) == req.route \in {"limits", "posts", "jobs", "job", "job-delete"}

\* the body the caller must get for an upstream body `raw` of type `contentType`
RelayedBody(contentType, raw) ==
  IF /\ contentType \in {"application/json; charset=utf-8", "application/problem+json"}
     /\ raw = "{ \"a\" : 1 }"
  THEN "{\"a\":1}"
  ELSE raw

\* C8: an upstream response whose body was read is relayed with its status
\* and content type; a JSON-typed body that parses is sent re-serialised,
\* every other body is sent as the text received.
C8_RelayShape ==
  (IsRelayRoute(request) /\ Relayed /\ request.net.kind = "response") =>
    /\ reply.kind = "relay"
    /\ reply.status = request.net.status
    /\ reply.contentType = request.net.contentType
    /\ reply.body = RelayedBody(request.net.contentType, request.net.text)

C8_Witness ==
  /\ IsRelayRoute(request)
  /\ reply.kind = "relay"
  /\ reply.status = 502
  /\ reply.contentType = "text/plain"
  /\ reply.body = "Bad Gateway"

\* the upstream response was not obtained
UpstreamFailed ==
  \/ "gatewayApiKey" \notin DOMAIN secrets
  \/ request.net.kind \in {"throws", "unreadable"}

\* the request got as far as the upstream call
ReachedUpstreamCall ==
  /\ IsRelayRoute(request)
  /\ IsPosts => (ReachedResolver /\ Resolved.selectedCount > 0 /\ Resolved.missing = <<>>)

\* C9: on every relay route, a failure to obtain the upstream response
\* (fetch throws, body cannot be read, no gateway API key) ends in a
\* ProblemDetails reply {type, title, status, detail} with the HelperError
\* status or 500; no exception leaves the handler.
C9_FailureIsProblem ==
  (ReachedUpstreamCall /\ UpstreamFailed) =>
    /\ reply.kind = "problem"
    /\ DOMAIN reply.body = {"type", "title", "status", "detail"}
    /\ reply.status \in {400, 500}
    /\ reply.body.status = reply.status

\* the credential tuple of p in the store s has every field the resolver
\* needs (Mastodon's visibility has a default and is not needed)
CredentialsComplete(s, p) ==
  /\ p \in DOMAIN s
  /\ \A f \in (CASE p = "x" -> {"authToken"}
                 [] p = "bluesky" -> {"identifier", "pdsUrl", "appPassword"}
                 [] OTHER -> {"instanceUrl", "accessToken"}) :
       f \in DOMAIN s[p] /\ s[p][f] \notin {"", UNDEF, NULL}

BlockFields(p) ==
  CASE p = "x" -> {"authToken", "client"}
    [] p = "bluesky" -> {"identifier", "pdsUrl", "appPassword"}
    [] OTHER -> {"instanceUrl", "accessToken", "visibility"}

\* C3: for every stored value and every explicit selection the resolver
\* partitions the selected platforms: p is a key of `targets` iff p is
\* selected and its tuple is complete, p is in `missing` iff p is selected and
\* its tuple is not; no platform is in both or listed twice, an unselected
\* platform is in neither, and every emitted block has all its fields.
C3_ResolverPartition ==
  (resolveResult.kind = "result" /\ resolveArgs.requestedTargets.kind # "nullish") =>
    LET s == resolveArgs.secrets
        sel == resolveArgs.requestedTargets
        targets == resolveResult.targets
        missing == resolveResult.missing
    IN /\ DOMAIN targets \subseteq PlatformSet
       /\ Range(missing) \subseteq PlatformSet
       /\ \A p \in PlatformSet :
            /\ p \in DOMAIN targets <=> (Selects(sel, p) /\ CredentialsComplete(s, p))
            /\ p \in Range(missing) <=> (Selects(sel, p) /\ ~CredentialsComplete(s, p))
       /\ DOMAIN targets \cap Range(missing) = {}
       /\ Cardinality(Range(missing)) = Len(missing)
       /\ \A p \in DOMAIN targets :
            /\ DOMAIN targets[p] = BlockFields(p)
            /\ \A f \in DOMAIN targets[p] : targets[p][f] \notin {"", UNDEF, NULL}
       /\ ( /\ s = [x |-> [authToken |-> "tok1"]]
            /\ sel = SelObject([x |-> TRUE, bluesky |-> TRUE, mastodon |-> FALSE]) )
          => (missing = <<"bluesky">> /\ DOMAIN targets = {"x"})

C3_Witness ==
  /\ resolveResult.kind = "result"
  /\ resolveArgs.secrets = [x |-> [authToken |-> "tok1"]]
  /\ resolveArgs.requestedTargets = SelObject([x |-> TRUE, bluesky |-> TRUE, mastodon |-> FALSE])
  /\ resolveResult.missing = <<"bluesky">>


(***************************************************************************)
(* Submit and validation                                                   *)
(***************************************************************************)
\* the step is a call of submit
SubmitStep == called' = "submit"

\* the segments a draft is published as
Segments(D) == IF D.mode = "single" THEN <<D.text>> ELSE D.thread

IsBlank(t) == t.bmp = 0 /\ t.astral = 0

Characters(t) == t.bmp + t.astral

\* errors has the message m, for segment label k when the message names one
Reports(errors, m, k) ==
  \E i \in 1..Len(errors) : errors[i].text = m /\ errors[i].segment = k

LabelOf(D, i) == IF D.mode = "single" THEN 0 ELSE i

\* every violated rule of the draft has its message in errors, whatever
\* other rules are violated too
CollectsAll(D, L, wantsSchedule, errors) ==
  LET segments == Segments(D)
      xLimit == IF L.loaded THEN L.x ELSE 280
      blueskyLimit == IF L.loaded THEN L.bluesky ELSE 300
  IN /\ (\A p \in PlatformSet : ~D.selectedTargets[p])
          => Reports(errors, "Select at least one target platform.", 0)
     /\ (\A i \in 1..Len(segments) : IsBlank(segments[i]))
          => Reports(errors, "Add post text before publishing.", 0)
     /\ \A i \in 1..Len(segments) :
          /\ (D.selectedTargets.x /\ Characters(segments[i]) > xLimit)
               => Reports(errors, "exceeds X limit", LabelOf(D, i))
          /\ (D.selectedTargets.bluesky /\ Characters(segments[i]) > blueskyLimit)
               => Reports(errors, "exceeds Bluesky limit", LabelOf(D, i))
     /\ \A k \in 0..(Len(segments) - 1) :
          (/\ D.selectedTargets.bluesky
           /\ Cardinality({j \in 1..Len(D.media) :
                 D.media[j].threadIndex = k /\ D.media[j].type = "video"}) > 1)
            => Reports(errors, "Bluesky segment allows only one video.", k + 1)
     /\ (wantsSchedule /\ D.scheduleAt = "")
          => Reports(errors, "Set a schedule date/time before scheduling.", 0)
     /\ (wantsSchedule /\ D.scheduleAt = "not-a-date")
          => Reports(errors, "Schedule date/time is invalid.", 0)

\* C10: a call of submit(wantsSchedule) sends a publish request if and only
\* if getValidationErrors(wantsSchedule) is empty; when it is not empty the
\* call sends nothing, leaves `publishing` as it was, and shows the first
\* entry of the list with statusIsError = true; and the list holds the
\* message of every violated rule, not only of the first one.
C10_SubmitGate ==
  [][SubmitStep =>
       LET errors == getValidationErrors(Draft, limits, wantsScheduleArg') IN
       /\ (Len(inflight') = Len(inflight) + 1) <=> (errors = <<>>)
       /\ errors # <<>> =>
            /\ inflight' = inflight
            /\ publishing' = publishing
            /\ statusMessage' = errors[1]
            /\ statusIsError' = TRUE
       /\ errors = <<>> => publishing' = TRUE
       /\ CollectsAll(Draft, limits, wantsScheduleArg', errors)]_vars

\* submit has just refused a draft that violates three rules or more: nothing
\* was sent and the first message is shown as an error
C10_Witness ==
  LET errors == getValidationErrors(Draft, limits, wantsScheduleArg) IN
  /\ called = "submit"
  /\ Len(errors) >= 3
  /\ inflight = <<>>
  /\ ~publishing
  /\ statusIsError
  /\ statusMessage = errors[1]
  /\ statusMessage = Plain("Select at least one target platform.")

\* submit has just sent the request of a draft without violation
SubmitSent ==
  /\ called = "submit"
  /\ getValidationErrors(Draft, limits, wantsScheduleArg) = <<>>
  /\ Len(inflight) >= 1
  /\ publishing


(***************************************************************************)
(* getValidationErrors                                                     *)
(***************************************************************************)
Validated == callResult.kind = "errors"

\* the number of entries of errors with text m for segment label k
CountOf(errors, m, k) ==
  Cardinality({i \in 1..Len(errors) : errors[i].text = m /\ errors[i].segment = k})

NoTargetSelected(D) == \A p \in PlatformSet : ~D.selectedTargets[p]

\* C11: for every draft with no target selected, getValidationErrors returns
\* a non-empty list whose first entry is 'Select at least one target
\* platform.', whatever the other fields are.
C11_NoTargetFirst ==
  (Validated /\ NoTargetSelected(callArgs.draft))
    => /\ Len(callResult.errors) >= 1
       /\ callResult.errors[1] = Plain("Select at least one target platform.")

\* a thread draft with no target, over-long text, too much media and a missing
\* schedule date was validated: the target message still comes first
C11_Witness ==
  /\ Validated
  /\ NoTargetSelected(callArgs.draft)
  /\ callArgs.draft.mode = "thread"
  /\ callArgs.draft.media # <<>>
  /\ callArgs.limits.loaded
  /\ callArgs.wantsSchedule
  /\ Len(callResult.errors) >= 3
  /\ callResult.errors[1] = Plain("Select at least one target platform.")

EmptySegments(D) == {i \in 1..Len(Segments(D)) : IsBlank(Segments(D)[i])}

MissingTextFlagged(errors) == Reports(errors, "Add post text before publishing.", 0)

\* C12 as stated: missing text is flagged iff the text (single mode), or
\* every segment (thread mode), trims to empty; and in thread mode with a
\* non-empty segment there is one empty-segment violation per empty segment.
C12_AsStated ==
  Validated =>
    LET D == callArgs.draft
        errors == callResult.errors
    IN /\ MissingTextFlagged(errors) <=> (EmptySegments(D) = 1..Len(Segments(D)))
       /\ (D.mode = "thread" /\ EmptySegments(D) # 1..Len(Segments(D)))
            => CountOf(errors, "Each thread segment should contain text.", 0)
                 = Cardinality(EmptySegments(D))

\* C12 (amended): missing text is flagged iff the text (single mode), or
\* every segment (thread mode), trims to empty; in thread mode exactly one
\* 'Each thread segment should contain text.' violation is added when at
\* least one segment is empty, whatever the number of empty segments, and
\* none otherwise; single mode never adds it.
C12_MissingText ==
  Validated =>
    LET D == callArgs.draft
        errors == callResult.errors
    IN /\ MissingTextFlagged(errors) <=> (EmptySegments(D) = 1..Len(Segments(D)))
       /\ CountOf(errors, "Add post text before publishing.", 0) <= 1
       /\ CountOf(errors, "Each thread segment should contain text.", 0)
            = IF D.mode = "thread" /\ EmptySegments(D) # {} THEN 1 ELSE 0

\* a thread with two empty segments and a non-empty one was validated: one
\* empty-segment violation and no missing-text violation
C12_Witness ==
  /\ Validated
  /\ callArgs.draft.mode = "thread"
  /\ Cardinality(EmptySegments(callArgs.draft)) = 2
  /\ Len(callArgs.draft.thread) = 3
  /\ ~MissingTextFlagged(callResult.errors)
  /\ CountOf(callResult.errors, "Each thread segment should contain text.", 0) = 1

LimitOf(L, target) ==
  IF target = "x" THEN (IF L.loaded THEN L.x ELSE 280)
  ELSE (IF L.loaded THEN L.bluesky ELSE 300)

LimitMessage(target) ==
  IF target = "x" THEN "exceeds X limit" ELSE "exceeds Bluesky limit"

\* the entries of errors about the character limit of `target` in segment i
LimitViolations(D, errors, target, i) ==
  {j \in 1..Len(errors) :
     errors[j].text = LimitMessage(target) /\ errors[j].segment = LabelOf(D, i)}

AtLimitAccepted ==
  /\ Validated
  /\ callArgs.draft.mode = "single"
  /\ callArgs.draft.text = Text(0, 280, FALSE)
  /\ ~callArgs.limits.loaded
  /\ callArgs.draft.selectedTargets.x
  /\ LimitViolations(callArgs.draft, callResult.errors, "x", 1) = {}

MediaOfType(D, k, type) ==
  Cardinality({j \in 1..Len(D.media) :
                 D.media[j].threadIndex = k /\ D.media[j].type = type})

MediaIndexes(D) == {D.media[j].threadIndex : j \in 1..Len(D.media)}

BlueskyMediaMessages ==
  {"Bluesky segment allows only one video.",
   "Bluesky segment cannot mix video and images together.",
   "Bluesky segment supports up to 4 images."}

\* the Bluesky media violations of the media with threadIndex k
BlueskyMediaViolations(errors, k) ==
  {j \in 1..Len(errors) :
     errors[j].text \in BlueskyMediaMessages /\ errors[j].segment = k + 1}

\* C14: with Bluesky selected, the media of one threadIndex gives at least
\* one Bluesky media violation iff it has more than one video, or a video
\* together with an image, or no video and more than 4 images; with Bluesky
\* unselected there is no Bluesky media violation at all.
C14_BlueskyMedia ==
  Validated =>
    LET D == callArgs.draft
        errors == callResult.errors
    IN /\ \A k \in MediaIndexes(D) \cup {0, 1, 2} :
            LET videos == MediaOfType(D, k, "video")
                images == MediaOfType(D, k, "image")
                broken == \/ videos > 1
                          \/ (videos >= 1 /\ images >= 1)
                          \/ (videos = 0 /\ images > 4)
            IN (BlueskyMediaViolations(errors, k) # {})
                 <=> (D.selectedTargets.bluesky /\ broken)
       /\ \A j \in 1..Len(errors) :
            errors[j].text \in BlueskyMediaMessages => D.selectedTargets.bluesky

\* five images on one segment were validated with Bluesky selected
C14_Witness ==
  /\ Validated
  /\ callArgs.draft.selectedTargets.bluesky
  /\ MediaOfType(callArgs.draft, 0, "image") = 5
  /\ MediaOfType(callArgs.draft, 0, "video") = 0
  /\ \E j \in 1..Len(callResult.errors) :
       callResult.errors[j] = Msg("Bluesky segment supports up to 4 images.", 1, 0, 0)

\* four images on one segment give no Bluesky media violation
FourImagesAccepted ==
  /\ Validated
  /\ callArgs.draft.selectedTargets.bluesky
  /\ MediaOfType(callArgs.draft, 0, "image") = 4
  /\ BlueskyMediaViolations(callResult.errors, 0) = {}

MastodonMessages == {"exceeds Mastodon limit", "Mastodon segment exceeds max media"}

MastodonKnown(L) == L.loaded /\ L.hasMastodon

MastodonReported ==
  /\ Validated
  /\ callArgs.limits = SmallLimits
  /\ Reports(callResult.errors, "exceeds Mastodon limit", 0)
  /\ Reports(callResult.errors, "Mastodon segment exceeds max media", 2)


\* the platforms whose stored tuple is complete
Credentialed(s) == {p \in PlatformSet : CredentialsComplete(s, p)}

\* C16: without a selection the resolver selects exactly the platforms whose
\* credential tuple is complete: `missing` is empty, the keys of `targets`
\* are the credentialed platforms and selectedCount is their number; with
\* empty secrets the result is selectedCount = 0, targets = {}, missing = [].
C16_AutoSelect ==
  (resolveResult.kind = "result" /\ resolveArgs.requestedTargets.kind = "nullish") =>
    /\ resolveResult.missing = <<>>
    /\ DOMAIN resolveResult.targets = Credentialed(resolveArgs.secrets)
    /\ resolveResult.selectedCount = Cardinality(Credentialed(resolveArgs.secrets))
    /\ DOMAIN resolveArgs.secrets = {} =>
         /\ resolveResult.selectedCount = 0
         /\ DOMAIN resolveResult.targets = {}

\* no selection, with a complete X tuple, a Bluesky tuple without app
\* password and a complete Mastodon tuple stored: x and mastodon are selected
C16_Witness ==
  /\ resolveResult.kind = "result"
  /\ resolveArgs.requestedTargets.kind = "nullish"
  /\ "bluesky" \in DOMAIN resolveArgs.secrets
  /\ DOMAIN resolveResult.targets = {"x", "mastodon"}
  /\ resolveResult.selectedCount = 2
  /\ resolveResult.missing = <<>>

\* no selection and nothing stored
AutoSelectNothing ==
  /\ resolveResult.kind = "result"
  /\ resolveArgs.requestedTargets.kind = "nullish"
  /\ DOMAIN resolveArgs.secrets = {}
  /\ resolveResult.selectedCount = 0

\* the platforms a selection requests
Requested(sel) == {p \in PlatformSet : Selects(sel, p)}

\* C17: for every selection a client can send, selectedCount is the number
\* of platforms among x, bluesky and mastodon that the selection requests,
\* whatever the credentials, so selectedCount = |keys of targets| + |missing|.
C17_SelectedCount ==
  (resolveResult.kind = "result" /\ resolveArgs.requestedTargets.kind # "nullish") =>
    /\ resolveResult.selectedCount \in 0..3
    /\ resolveResult.selectedCount = Cardinality(Requested(resolveArgs.requestedTargets))
    /\ resolveResult.selectedCount
         = Cardinality(DOMAIN resolveResult.targets) + Len(resolveResult.missing)


HasGatewayKey == "gatewayApiKey" \in DOMAIN secrets /\ secrets["gatewayApiKey"] \notin {"", UNDEF, NULL}

\* C18: a request to a relay route makes at most one upstream request and
\* never a second one: none when no gateway API key is stored (the request
\* that got as far as the upstream call is answered 400), otherwise one that
\* carries Authorization: Bearer <stored key>; when the fetch fails the
\* caller gets the failure after that single call.
C18_OneUpstreamRequest ==
  (IsRelayRoute(request) /\ reply # NoReply) =>
    /\ Len(fetches) <= 1
    /\ ~HasGatewayKey =>
         /\ fetches = <<>>
         /\ ReachedUpstreamCall =>
              /\ ProblemIs(400, reply.body.title)
              /\ reply.body.detail = <<"Missing gateway API key in secure local storage.">>
    /\ (HasGatewayKey /\ ReachedUpstreamCall) =>
         /\ Len(fetches) = 1
         /\ fetches[1].authorization = <<"Bearer", secrets["gatewayApiKey"]>>
         /\ fetches[1] = upstream
    /\ ~ReachedUpstreamCall => fetches = <<>>
    /\ (Len(fetches) = 1 /\ request.net.kind = "throws") => reply.kind = "problem"

\* the fetch of a relay route failed with a key stored: one call, then a
\* 500 problem reply
C18_Witness ==
  /\ IsRelayRoute(request)
  /\ HasGatewayKey
  /\ request.net.kind = "throws"
  /\ Len(fetches) = 1
  /\ fetches[1].authorization = <<"Bearer", secrets["gatewayApiKey"]>>
  /\ ProblemIs(500, reply.body.title)

\* a relay route was asked with no key stored: no call, 400
NoKeyNoCall ==
  /\ ReachedUpstreamCall
  /\ ~HasGatewayKey
  /\ fetches = <<>>
  /\ reply.status = 400


(***************************************************************************)
(* Payloads                                                                *)
(***************************************************************************)
BuiltPayload == callResult.kind \in {"payload", "gatewayPayload"}

\* C19: every payload built by buildPayload (client) and by
\* buildGatewayPayload (helper) has exactly one of `text` and `thread`;
\* the elements of a helper-built `thread` have the form {text: string}, and
\* a `thread` input that is not an array is discarded.
C19_TextXorThread ==
  BuiltPayload =>
    LET payload == callResult.payload IN
    /\ ("text" \in DOMAIN payload) # ("thread" \in DOMAIN payload)
    /\ callResult.kind = "gatewayPayload" =>
         /\ "thread" \in DOMAIN payload =>
              \A i \in 1..Len(payload["thread"]) :
                /\ DOMAIN payload["thread"][i] = {"text"}
                /\ IsString(payload["thread"][i].text)
         /\ ~callArgs.clientPayload.thread.isArray => "thread" \notin DOMAIN payload

\* the client half of C19 alone
ClientTextXorThread ==
  callResult.kind = "payload" =>
    /\ ("text" \in DOMAIN callResult.payload) # ("thread" \in DOMAIN callResult.payload)
    /\ "text" \in DOMAIN callResult.payload <=> callArgs.draft.mode = "single"

IsNonNegativeInteger(v) == v.t = "number" /\ v.n >= 0

KeepsAltText(item) == IsString(item.altText) /\ Trim(item.altText) # ""

\* the entry a kept item must become
EntryOf(item) ==
  IF KeepsAltText(item)
  THEN [threadIndex |-> item.threadIndex.n, altText |-> Trim(item.altText)]
  ELSE [threadIndex |-> item.threadIndex.n]

\* the items that must be kept, in their order
Eligible(items) == SelectSeq(items, LAMBDA item : IsNonNegativeInteger(item.threadIndex))

\* C20: sanitizeMedia keeps, in their order, exactly the items whose
\* threadIndex is a non-negative integer, each as {threadIndex} with the
\* trimmed altText when the input altText is a string that is not empty after
\* trimming; every other item is dropped, and a non-array input or a list
\* with no kept item gives no `media`.
C20_SanitizeMedia ==
  callResult.kind = "media" =>
    LET result == callResult.media IN
    /\ \A i \in 1..Len(result) : result[i].threadIndex \in Nat
    /\ IF callArgs.media.isArray
       THEN LET kept == Eligible(callArgs.media.items) IN
            result = [i \in 1..Len(kept) |-> EntryOf(kept[i])]
       ELSE result = <<>>

\* the part of C20 about the entries returned: integer threadIndex >= 0, and
\* altText only as a trimmed non-empty string
SanitizedEntries ==
  callResult.kind = "media" =>
    \A i \in 1..Len(callResult.media) :
      /\ callResult.media[i].threadIndex \in Nat
      /\ "altText" \in DOMAIN callResult.media[i] =>
           (IsString(callResult.media[i].altText) /\ callResult.media[i].altText # "")

(***************************************************************************)
(* Request shape, concurrent saves, relayed targets                        *)
(***************************************************************************)
\* the request carries no usable client payload object
ShapeError ==
  /\ IsPosts
  /\ \/ request.path = "multipart" /\ request.shape \in {"missing", "invalid", "null", "primitive"}
     \/ request.path = "json" /\ request.shape \in {"null", "primitive"}

\* C21: every request-shape error on POST /api/posts is answered 400 with a
\* specific title, never 5xx, and makes no upstream request: no payload
\* field gives 'Missing payload', a payload that is not JSON gives 'Invalid
\* payload JSON', and a payload or body that parses to a non-object (null, a
\* primitive) is answered 400 too.
C21_ShapeErrors ==
  ShapeError =>
    /\ reply.kind = "problem"
    /\ reply.status = 400
    /\ ~Relayed
    /\ fetches = <<>>
    /\ request.shape = "missing" => ProblemIs(400, "Missing payload")
    /\ request.shape = "invalid" => ProblemIs(400, "Invalid payload JSON")

\* the part of C21 about a missing or unparsable payload field
MissingOrInvalidRejected ==
  (IsPosts /\ request.path = "multipart") =>
    /\ request.shape = "missing" => (ProblemIs(400, "Missing payload") /\ ~Relayed)
    /\ request.shape = "invalid" => (ProblemIs(400, "Invalid payload JSON") /\ ~Relayed)

\* what request i must have written: the store computed from its own snapshot
WrittenBy(i) == settingsSecrets(saves[i].current, saves[i].body).secrets

\* C22: with two POST /api/settings/secrets requests running concurrently,
\* the store is at every moment the value written by the request that wrote
\* last, computed from that request's own read snapshot (and the initial
\* value while no request has written), and in every interleaving each
\* platform's stored tuple is absent or complete.
C22_LastWriteWins ==
  saves # <<>> =>
    /\ StoreWellFormed(secrets)
    /\ lastWriter # 0 =>
         /\ saves[lastWriter].pc = "done"
         /\ secrets = WrittenBy(lastWriter)
    /\ lastWriter = 0 =>
         \A i \in Savers : saves[i].pc # "received" => saves[i].current = secrets
    /\ \A i \in Savers :
         (saves[i].pc = "done" /\ saves[i].reply.kind = "problem") => saves[i].reply.status = 400

\* both requests read the full store before either wrote; the first sets the
\* X token, the second, writing last, clears Bluesky: the first request's
\* token is lost although it was answered 200
C22_Witness ==
  /\ saves # <<>>
  /\ \A i \in Savers : saves[i].pc = "done" /\ saves[i].reply.kind = "json"
  /\ lastWriter = 2
  /\ saves[1].current = saves[2].current
  /\ saves[1].body.xAuthToken = " tok1 "
  /\ "x" \in DOMAIN saves[1].next /\ saves[1].next["x"] = [authToken |-> "tok1"]
  /\ "bluesky" \notin DOMAIN saves[2].next
  /\ secrets = saves[2].next
  /\ "x" \in DOMAIN secrets /\ secrets["x"] = [authToken |-> "tok0"]

\* C23: every publish request the helper relays to upstream /v1/posts carries
\* at least one platform target: the `targets` object of a relayed payload
\* is never empty, whatever selectedTargets value the client sent.
C23_RelayedHasTarget ==
  (Relayed /\ upstream.route = <<"/v1/posts">>) =>
    DOMAIN upstream.body.payload["targets"] # {}

\* the part of C23 for selections that name a platform: a relayed request
\* whose selection requests one of x, bluesky, mastodon has a target
RequestedHasTarget ==
  (Relayed /\ upstream.route = <<"/v1/posts">>
     /\ Requested(RequestPayload.selectedTargets) # {})
    => DOMAIN upstream.body.payload["targets"] # {}

\* the Bluesky media rules the media with threadIndex k violate
ViolatedBlueskyRules(D, k) ==
  LET videos == MediaOfType(D, k, "video")
      images == MediaOfType(D, k, "image")
  IN (IF videos > 1 THEN {"Bluesky segment allows only one video."} ELSE {})
     \cup (IF videos >= 1 /\ images >= 1
           THEN {"Bluesky segment cannot mix video and images together."} ELSE {})
     \cup (IF videos = 0 /\ images > 4
           THEN {"Bluesky segment supports up to 4 images."} ELSE {})

\* C25: with Bluesky selected, each media rule violated by the media of one
\* threadIndex gives exactly one message, naming segment threadIndex + 1, and
\* a rule that is not violated gives none: two or more videos with an image
\* give two messages, a single violated rule gives one.
C25_OneMessagePerRule ==
  (Validated /\ callArgs.draft.selectedTargets.bluesky) =>
    \A k \in MediaIndexes(callArgs.draft), m \in BlueskyMediaMessages :
      CountOf(callResult.errors, m, k + 1)
        = IF m \in ViolatedBlueskyRules(callArgs.draft, k) THEN 1 ELSE 0

\* the part of C25 about a single violated rule: exactly one message, the one
\* of that rule, naming the segment
SingleRuleOneMessage ==
  (Validated /\ callArgs.draft.selectedTargets.bluesky) =>
    \A k \in MediaIndexes(callArgs.draft) :
      Cardinality(ViolatedBlueskyRules(callArgs.draft, k)) = 1 =>
        /\ Cardinality(BlueskyMediaViolations(callResult.errors, k)) = 1
        /\ \A m \in ViolatedBlueskyRules(callArgs.draft, k) :
             CountOf(callResult.errors, m, k + 1) = 1

(***************************************************************************)
(* Editing                                                                 *)
(***************************************************************************)
\* every attached entry references a segment that exists
MediaReferencesSegments ==
  \A i \in 1..Len(media) :
    IF mode = "thread"
    THEN media[i].threadIndex \in 0..(Len(thread) - 1)
    ELSE media[i].threadIndex = 0

\* the step removes a thread segment
RemovesSegment == mode = "thread" /\ Mounted /\ Len(thread') = Len(thread) - 1

\* C24: after any sequence of compose-pane operations every attached media
\* entry references an existing segment, 0 <= threadIndex < thread.length in
\* thread mode and threadIndex = 0 in single mode, and removeThreadSegment
\* never drops a media entry.
C24_MediaReferences ==
  [][ /\ MediaReferencesSegments'
      /\ RemovesSegment =>
           /\ Len(media') = Len(media)
           /\ \A i \in 1..Len(media) : media'[i].id = media[i].id ]_vars

\* the part of C24 that concerns thread mode and removeThreadSegment
ThreadModeReferences ==
  [][ /\ mode' = "thread" =>
           \A i \in 1..Len(media') : media'[i].threadIndex \in 0..(Len(thread') - 1)
      /\ RemovesSegment =>
           /\ Len(media') = Len(media)
           /\ \A i \in 1..Len(media) : media'[i].id = media[i].id ]_vars

\* the Bluesky media rule on the files of a payload, grouped by the
\* threadIndex of its entries; types[i] is the type of the i-th file
PayloadObeysBluesky(payload, types) ==
  "media" \in DOMAIN payload =>
    \A k \in {payload["media"][i].threadIndex : i \in 1..Len(payload["media"])} :
      LET of(type) == Cardinality({i \in 1..Len(payload["media"]) :
                        payload["media"][i].threadIndex = k /\ types[i] = type})
      IN /\ of("video") <= 1
         /\ ~(of("video") >= 1 /\ of("image") >= 1)
         /\ (of("video") = 0 => of("image") <= 4)

\* C26: for every draft that passes validation with Bluesky selected,
\* reached by any sequence of mode switches and media re-assignments, the
\* payload built by buildPayload satisfies the Bluesky media rule with the
\* files grouped by the payload's own threadIndex.
C26_PayloadObeysBluesky ==
  (Mounted /\ selectedTargets.bluesky /\ getValidationErrors(Draft, limits, FALSE) = <<>>)
    => PayloadObeysBluesky(buildPayload(Draft, FALSE).payload,
                           [i \in 1..Len(media) |-> media[i].type])

\* the part of C26 for thread mode, where the payload keeps each entry's
\* threadIndex
ThreadPayloadObeysBluesky ==
  (Mounted /\ mode = "thread" /\ selectedTargets.bluesky
     /\ getValidationErrors(Draft, limits, FALSE) = <<>>)
    => PayloadObeysBluesky(buildPayload(Draft, FALSE).payload,
                           [i \in 1..Len(media) |-> media[i].type])

\* the step is the run of the mount effects
MountStep == called = "render" /\ called' = "effects"

\* C30: when a saved draft exists, after the mount effects have run
\* selectedTargets is the saved draft's selection, for every value of the
\* configured flags; the initialisation from the configured flags happens at
\* most once per mount and never overwrites a restored or changed selection.
C30_DraftSelectionRestored ==
  [][ /\ (MountStep /\ loadDraft(savedDraft).present)
           => selectedTargets' = savedDraft.selectedTargets
      /\ (Mounted /\ configured' # configured /\ called' # "render")
           => selectedTargets' = selectedTargets ]_vars

\* the part of C30 about the initialisation happening once: after the mount
\* effects the ref is set, and a later change of the configured prop leaves
\* the selection alone
InitialisedOncePerMount ==
  [][ /\ MountStep => initializedTargetsRef'
      /\ (Mounted /\ configured' # configured /\ called' # "render")
           => selectedTargets' = selectedTargets ]_vars

(***************************************************************************)
(* Publishing: media parts, requests in flight, outcome                    *)
(***************************************************************************)
\* the media metadata list of a payload (absent stands for the empty list)
MediaOf(payload) == IF "media" \in DOMAIN payload THEN payload["media"] ELSE <<>>

\* a multipart publish was relayed to upstream /v1/posts
MultipartRelayed ==
  /\ IsPosts /\ request.path = "multipart"
  /\ Relayed /\ upstream.route = <<"/v1/posts">>

\* the request the helper received has one metadata entry per file part
ReceivedAligned ==
  /\ request.shape = "object"
  /\ request.payload.media.isArray
  /\ Len(request.payload.media.items) = request.files

\* C27: in every multipart publish that reaches upstream /v1/posts the media
\* metadata list of the payload is as long as the list of forwarded media
\* file parts, entry i describing file i; the helper preserves this for a
\* request that has it: it forwards every file part and the sanitized
\* metadata list.
C27_MediaAligned ==
  (MultipartRelayed /\ ReceivedAligned) =>
     /\ upstream.body.files = request.files
     /\ Len(MediaOf(upstream.body.payload)) = upstream.body.files

\* the part of C27 that holds in the helper: every uploaded file part is
\* forwarded, with the sanitized metadata list
ForwardsEveryFile ==
  MultipartRelayed =>
     /\ upstream.body.kind = "multipart/form-data"
     /\ upstream.body.files = request.files
     /\ MediaOf(upstream.body.payload) = sanitizeMedia(RequestPayload.media)

\* the part of C27 that holds in the compose pane: a request submit hands to
\* publish has one metadata entry per file, entry i built from the attached
\* entry whose file is file i, and it is multipart exactly when it has files
ClientMediaAligned ==
  [][(called' = "submit" /\ Len(inflight') = Len(inflight) + 1) =>
       LET sent == inflight'[Len(inflight')] IN
       /\ Len(sent.files) = Len(media)
       /\ Len(MediaOf(sent.payload)) = Len(sent.files)
       /\ (sent.path = "multipart") = (Len(sent.files) > 0)
       /\ \A i \in 1..Len(media) :
            /\ sent.files[i] = media[i].id
            /\ MediaOf(sent.payload)[i].threadIndex =
                 (IF mode = "single" THEN 0 ELSE media[i].threadIndex)]_vars

\* the Publish now and Schedule buttons are disabled
ButtonsDisabled == publishing

\* C28: at most one publish request of the compose pane is in flight at any
\* time: while publishing is true no invocation of submit (buttons, Cmd/Ctrl+
\* Enter shortcuts, command palette) starts a second request, and publishing
\* stays true until the request in flight has completed.
C28_OneInFlight ==
  /\ Len(inflight) <= 1
  /\ (inflight # <<>> => publishing)

\* the part of C28 that holds: a submit that starts a request sets publishing,
\* which disables the buttons, and every completion clears it
PublishingFollowsLastEvent ==
  [][/\ (called' = "submit" /\ Len(inflight') > Len(inflight)) => ButtonsDisabled'
     /\ (Len(inflight') < Len(inflight)) => ~publishing']_vars

\* the pane shows a non-error status saying the post was published
ShowsPublished(message, isError) ==
  message = Plain("Published successfully.") /\ ~isError

\* the await of submit settled, with a response or with an error
SubmitCompletes == called' \in {"resolve", "reject"} /\ Len(inflight') < Len(inflight)

\* C29: after submit completes the pane shows the non-error status
\* 'Published successfully.' and clears the attached media only when the
\* response reports overall = 'success' (or scheduled = true, for the
\* scheduled message); a 2xx response whose overall is 'failed' never yields
\* a success status; a thrown error always yields statusIsError = true with
\* media and text unchanged; in every outcome publishing ends false.
C29_Outcome ==
  [][SubmitCompletes =>
       /\ ~publishing'
       /\ called' = "resolve" =>
            /\ ShowsPublished(statusMessage', statusIsError') =>
                 lastResponse'.overall = "success"
            /\ (media # <<>> /\ media' = <<>>) =>
                 (lastResponse'.scheduled \/ lastResponse'.overall = "success")
            /\ lastResponse'.overall = "failed" => statusIsError'
       /\ called' = "reject" =>
            /\ statusIsError'
            /\ media' = media /\ text' = text /\ thread' = thread]_vars

\* the parts of C29 that hold: media is cleared only for a scheduled or a
\* successful response, an error leaves the draft alone and is shown as an
\* error, and publishing ends false
OutcomeKeepsDraft ==
  [][SubmitCompletes =>
       /\ ~publishing'
       /\ called' = "resolve" =>
            /\ media' # media =>
                 (lastResponse'.scheduled \/ lastResponse'.overall = "success")
            /\ text' = text /\ thread' = thread
       /\ called' = "reject" =>
            /\ statusIsError'
            /\ media' = media /\ text' = text /\ thread' = thread]_vars
====
